---- MODULE Spec2Model ----
(***************************************************************************)
(* A model of the Wise submission download / marked-PDF upload scripts     *)
(* (main.py, upload_marked.py).  Strings are sequences of one-character    *)
(* strings, so that sanitising, joining and regular-expression matching    *)
(* are computed character by character, as the Python code computes them.  *)
(***************************************************************************)
EXTENDS Integers, Sequences, FiniteSets, TLC

(***************************************************************************)
(* Bounds of the model.                                                    *)
(***************************************************************************)
\* Tokens shared by the class label, student label and attachment filename
\* of one encoded submission.
MaxTok == 4
\* "__"-joined segments of one filename handed to the decoder.
MaxNameTok == 6

(***************************************************************************)
(* Program constants.                                                      *)
(***************************************************************************)
\* upload_marked.py: [a-f0-9]{24}
IdLen == 24
\* main.py: safe_part(..., max_len=50) for class and student names
ClassMaxLen == 50
StudentMaxLen == 50
\* main.py: safe_part(title, max_len=60)
TitleMaxLen == 60
\* main.py: safe_part(a["filename"], max_len=90)
FileMaxLen == 90

(***************************************************************************)
(* Characters and strings.                                                 *)
(***************************************************************************)
\* Python's \s and str.strip() whitespace (the ASCII part).
WhiteSpace == {" ", "\t", "\n", "\r", "\f"}

\* The character class of safe_part's first re.sub.
IllegalChars == {"<", ">", ":", "\"", "/", "\\", "|", "?", "*", "\n", "\r", "\t"}

UpperSeq == <<"A","B","C","D","E","F","G","H","I","J","K","L","M",
              "N","O","P","Q","R","S","T","U","V","W","X","Y","Z">>
LowerSeq == <<"a","b","c","d","e","f","g","h","i","j","k","l","m",
              "n","o","p","q","r","s","t","u","v","w","x","y","z">>

\* str.lower() on one character.
LowerChar(c) ==
    IF \E i \in 1..26 : UpperSeq[i] = c
    THEN LowerSeq[CHOOSE i \in 1..26 : UpperSeq[i] = c]
    ELSE c

\* str.lower()
Lower(s) == [i \in 1..Len(s) |-> LowerChar(s[i])]

\* [a-f0-9] under re.IGNORECASE
HexChars == {"0","1","2","3","4","5","6","7","8","9",
             "a","b","c","d","e","f","A","B","C","D","E","F"}

\* s[i:j] of Python for 1-based inclusive positions; empty when i > j.
Slice(s, i, j) == IF i > j THEN <<>> ELSE SubSeq(s, i, j)

\* s.startswith(p) at position i (1-based).
HasAt(s, i, p) ==
    /\ i >= 1
    /\ i + Len(p) - 1 <= Len(s)
    /\ \A k \in 1..Len(p) : s[i + k - 1] = p[k]

\* s.endswith(p)
EndsWith(s, p) == HasAt(s, Len(s) - Len(p) + 1, p)

\* True iff p occurs somewhere in s.
Contains(s, p) == \E i \in 1..Len(s) : HasAt(s, i, p)

RECURSIVE Join(_)
\* "".join(parts)
Join(parts) == IF parts = <<>> THEN <<>> ELSE Head(parts) \o Join(Tail(parts))

\* The subsequence of s at the positions in keep, in order.
FilterPos(s, keep) ==
    LET tagged == [i \in 1..Len(s) |-> <<s[i], i \in keep>>]
        sel    == SelectSeq(tagged, LAMBDA p : p[2])
    IN  [i \in 1..Len(sel) |-> sel[i][1]]

\* str.strip(): s without its leading and trailing whitespace.
Strip(s) ==
    LET solid == {i \in 1..Len(s) : s[i] \notin WhiteSpace}
    IN  IF solid = {} THEN <<>>
        ELSE LET lo == CHOOSE i \in solid : \A k \in 1..(i - 1) : s[k] \in WhiteSpace
                 hi == CHOOSE i \in solid : \A k \in (i + 1)..Len(s) : s[k] \in WhiteSpace
             IN  SubSeq(s, lo, hi)

\* re.sub("[cls]+", " ", s): every maximal run of cls becomes one space (the
\* first character of a run is replaced by the space, the rest are dropped).
ReSubRuns(s, cls) ==
    LET spaced == [i \in 1..Len(s) |-> IF s[i] \in cls THEN " " ELSE s[i]]
        keep   == {i \in 1..Len(s) : s[i] \notin cls \/ i = 1 \/ s[i - 1] \notin cls}
    IN  FilterPos(spaced, keep)

Dunder == <<"_", "_">>

\* The number of underscores directly before position i.
UnderscoresBefore(s, i) ==
    LET others == {k \in 1..(i - 1) : s[k] /= "_"}
    IN  IF others = {} THEN i - 1
        ELSE i - 1 - (CHOOSE k \in others : \A j \in (k + 1)..(i - 1) : s[j] = "_")

\* s.replace("__", "_"): one left-to-right pass over non-overlapping matches.
\* Within a run of underscores the matches are the pairs counted from the
\* run's start, so the pass drops every second underscore of the run.
ReplaceDunder(s) ==
    FilterPos(s, {i \in 1..Len(s) : s[i] /= "_" \/ UnderscoresBefore(s, i) % 2 = 0})

\* safe_part(s, max_len)
safe_part(s, max_len) ==
    LET s1 == Strip(s)
        s2 == ReSubRuns(s1, IllegalChars)
        s3 == Strip(ReSubRuns(s2, WhiteSpace))
        s4 == ReplaceDunder(s3)
    IN  IF Len(s4) > max_len THEN SubSeq(s4, 1, max_len) ELSE s4

(***************************************************************************)
(* upload_marked.py: FILENAME_RE, compiled VERBOSE | IGNORECASE.           *)
(*   ^(?P<class>.+?)__(?P<assessment>[a-f0-9]{24})__                       *)
(*    (?P<student>.+?)__(?P<student_id>[a-f0-9]{24})__.+?\sMarked\.pdf$    *)
(***************************************************************************)
MarkedPdf == <<"m","a","r","k","e","d",".","p","d","f">>

\* "." matches every character but a newline.
AllDot(s, i, j) == \A k \in i..j : s[k] /= "\n"

\* "__[a-f0-9]{24}__" matched at position i.
IdBlockAt(s, i) ==
    /\ HasAt(s, i, Dunder)
    /\ i + IdLen + 3 <= Len(s)
    /\ \A k \in (i + 2)..(i + IdLen + 1) : s[k] \in HexChars
    /\ HasAt(s, i + IdLen + 2, Dunder)

\* The positions at which "$" matches: the end, or just before a final newline.
EndPositions(s) ==
    {Len(s)} \cup (IF s /= <<>> /\ s[Len(s)] = "\n" THEN {Len(s) - 1} ELSE {})

\* ".+?\sMarked\.pdf$" matched from position i.
TailAt(s, i) ==
    \E e \in EndPositions(s) :
        /\ e - i + 1 >= 1 + 1 + Len(MarkedPdf)
        /\ Lower(Slice(s, e - Len(MarkedPdf) + 1, e)) = MarkedPdf
        /\ s[e - Len(MarkedPdf)] \in WhiteSpace
        /\ AllDot(s, i, e - Len(MarkedPdf) - 1)

\* The whole pattern matched with the assessment block at i and the
\* student-id block at j.
MatchAt(s, i, j) ==
    /\ i >= 2
    /\ AllDot(s, 1, i - 1)
    /\ IdBlockAt(s, i)
    /\ j >= i + IdLen + 5
    /\ AllDot(s, i + IdLen + 4, j - 1)
    /\ IdBlockAt(s, j)
    /\ TailAt(s, j + IdLen + 4)

NoMatch == [matched |-> FALSE]

\* FILENAME_RE.match(name): the lazy groups take the shortest class, then the
\* shortest student, for which the rest of the pattern matches.
FILENAME_RE_match(s) ==
    LET blocks == {i \in 1..Len(s) : IdBlockAt(s, i)}
        firsts == {i \in blocks : \E j \in blocks : MatchAt(s, i, j)}
    IN  IF firsts = {} THEN NoMatch
        ELSE LET i == CHOOSE a \in firsts : \A b \in firsts : a <= b
                 seconds == {j \in blocks : MatchAt(s, i, j)}
                 j == CHOOSE a \in seconds : \A b \in seconds : a <= b
             IN  [matched    |-> TRUE,
                  class      |-> Slice(s, 1, i - 1),
                  assessment |-> Slice(s, i + 2, i + IdLen + 1),
                  student    |-> Slice(s, i + IdLen + 4, j - 1),
                  student_id |-> Slice(s, j + 2, j + IdLen + 1)]

(***************************************************************************)
(* pathlib: the stem and suffix of a final path component.                 *)
(***************************************************************************)
\* The position of the dot that starts PurePath.suffix, or 0: the last dot,
\* unless it is the first or the last character of the name.
SuffixDot(name) ==
    LET dots == {i \in 1..Len(name) : name[i] = "."}
    IN  IF dots = {} THEN 0
        ELSE LET d == CHOOSE a \in dots : \A b \in dots : a >= b
             IN  IF d > 1 /\ d < Len(name) THEN d ELSE 0

PathSuffix(name) ==
    IF SuffixDot(name) = 0 THEN <<>> ELSE Slice(name, SuffixDot(name), Len(name))

PathStem(name) ==
    IF SuffixDot(name) = 0 THEN name ELSE Slice(name, 1, SuffixDot(name) - 1)

(***************************************************************************)
(* main.py: unique_path.  A folder is the set of the names it holds, given *)
(* as names listed one by one and runs <<stem, suffix, lo, hi>>, each of   *)
(* which stands for the names f"{stem} ({i}){suffix}" with i in lo..hi.    *)
(***************************************************************************)
\* range(2, 9999) ends at 9998.
UniqueLast == 9998

Digits == <<"0","1","2","3","4","5","6","7","8","9">>

RECURSIVE IntToStr(_)
\* str(n) for n >= 0
IntToStr(n) ==
    IF n < 10 THEN <<Digits[n + 1]>>
    ELSE IntToStr(n \div 10) \o <<Digits[(n % 10) + 1]>>

\* f"{stem} ({i}){suffix}"
Numbered(stem, suffix, i) == stem \o <<" ", "(">> \o IntToStr(i) \o <<")">> \o suffix

\* The candidate of index i for the desired name.
Candidate(desired, i) == Numbered(PathStem(desired), PathSuffix(desired), i)

\* The folder that holds the names listed and nothing else.
Folder(names) == [names |-> names, runs |-> {}]

DigitValue == [c \in {Digits[k] : k \in 1..10} |-> (CHOOSE k \in 1..10 : Digits[k] = c) - 1]

\* int(d) for a string of digits
StrToInt(d) ==
    LET Sum[k \in 0..Len(d)] == IF k = 0 THEN 0 ELSE Sum[k - 1] * 10 + DigitValue[d[k]]
    IN  Sum[Len(d)]

\* The index i below 10^9 with name = Numbered(stem, suffix, i), or 0 when
\* there is none: the indices of a run are below 10^9.
IndexOf(name, stem, suffix) ==
    LET head == stem \o <<" ", "(">>
        tail == <<")">> \o suffix
        d    == Slice(name, Len(head) + 1, Len(name) - Len(tail))
    IN  IF /\ Len(name) > Len(head) + Len(tail)
           /\ Len(d) <= 9
           /\ SubSeq(name, 1, Len(head)) = head
           /\ SubSeq(name, Len(name) - Len(tail) + 1, Len(name)) = tail
           /\ \A k \in 1..Len(d) : d[k] \in DOMAIN DigitValue
           /\ d[1] /= "0"
        THEN StrToInt(d)
        ELSE 0

\* path.exists()
Exists(folder, name) ==
    \/ name \in folder.names
    \/ \E run \in folder.runs :
         LET i == IndexOf(name, run[1], run[2]) IN i >= run[3] /\ i <= run[4]

\* The folder after a file of that name was written.
WithFile(folder, name) == [folder EXCEPT !.names = @ \cup {name}]

\* The folder after the files of those names, which are listed one by one,
\* were unlinked.
WithoutFiles(folder, names) == [folder EXCEPT !.names = @ \ names]

RECURSIVE FirstFree(_, _, _, _, _)
\* The loop "for i in range(lo, hi + 1)" of unique_path: the first index whose
\* candidate does not exist, or 0 when the loop ends without returning.  The
\* indices are visited in increasing order.
FirstFree(folder, stem, suffix, lo, hi) ==
    IF lo > hi THEN 0
    ELSE IF lo = hi THEN (IF ~Exists(folder, Numbered(stem, suffix, lo)) THEN lo ELSE 0)
    ELSE LET mid  == (lo + hi) \div 2
             left == FirstFree(folder, stem, suffix, lo, mid)
         IN  IF left /= 0 THEN left ELSE FirstFree(folder, stem, suffix, mid + 1, hi)

\* unique_path(base_dir, desired_name), base_dir being `folder` and the clock
\* reading `now` (epoch seconds).
unique_path(folder, desired, now) ==
    IF ~Exists(folder, desired) THEN desired
    ELSE LET stem   == PathStem(desired)
             suffix == PathSuffix(desired)
             i      == FirstFree(folder, stem, suffix, 2, UniqueLast)
         IN  IF i /= 0 THEN Numbered(stem, suffix, i) ELSE Numbered(stem, suffix, now)

(***************************************************************************)
(* The identity codec: main.py names an output file, the marker adds       *)
(* " Marked" before ".pdf", upload_marked.py decodes the name.             *)
(***************************************************************************)
VARIABLES
    cpc,              \* position in the encode / mark / decode sequence
    c_name,           \* the class's raw name
    title,            \* the assessment's title, <<>> when it has none
    aid,              \* the assessment id
    s_name,           \* extract_student_name(sub)
    student_id,       \* extract_student_id(sub)
    a_filename,       \* a["filename"] of a pdf attachment
    class_name,       \* safe_part(c_name, 50)
    assessment_title, \* safe_part(title, 60), or aid
    student_name,     \* safe_part(s_name, 50)
    prefix,           \* the identity prefix
    original,         \* safe_part(a["filename"], 90)
    out_name,         \* the name of the file written
    out_kind,         \* "pdf" (a direct download) or "images" (a merged pdf)
    marked_name,      \* the name of the marked file
    m                 \* FILENAME_RE.match(marked_name)

codecVars == <<cpc, c_name, title, aid, s_name, student_id, a_filename,
               class_name, assessment_title, student_name, prefix, original,
               out_name, out_kind, marked_name, m>>

Hex8 == <<"6","9","5","b","a","a","0","1">>
\* 24-hex ids: an assessment id, a student id (with capitals), and a third
\* id that may occur inside a label.
AidA == Hex8 \o Hex8 \o <<"0","0","0","0","0","0","0","a">>
SidB == Hex8 \o Hex8 \o <<"0","0","0","0","0","0","0","B">>
HexH == Hex8 \o Hex8 \o <<"0","0","0","0","0","0","0","c">>

\* The pieces labels are built from.
LabelTokens ==
    { <<"x">>, <<"_">>, <<"_","_","_">>, <<" ","/","\t">>, HexH }

TokSeqs(n) == [1..n -> LabelTokens]

DotPdf == <<".","p","d","f">>

FileEndings == { <<"h","w">>, DotPdf, <<"h","w",".","P","D","F">> }

Titles == { <<>>, <<"Q","u","i","z"," ","1">> }

CodecInit ==
    /\ cpc = "prefix"
    /\ \E nc \in 1..MaxTok : \E ns \in 0..(MaxTok - nc) : \E nf \in 0..(MaxTok - nc - ns) :
         \E tc \in TokSeqs(nc), ts \in TokSeqs(ns), tf \in TokSeqs(nf) :
           \E e \in FileEndings :
             /\ c_name = Join(tc)
             /\ s_name = Strip(Join(ts))
             /\ a_filename = Join(tf) \o e
    /\ title \in Titles
    /\ aid = AidA
    /\ student_id = SidB
    /\ class_name = <<>>
    /\ assessment_title = <<>>
    /\ student_name = <<>>
    /\ prefix = <<>>
    /\ original = <<>>
    /\ out_name = <<>>
    /\ out_kind = "none"
    /\ marked_name = <<>>
    /\ m = NoMatch

\* main.py 383, 419, 426-436: the sanitised segments and the prefix.
BuildPrefix ==
    /\ cpc = "prefix"
    /\ LET cn == safe_part(c_name, ClassMaxLen)
           at == IF title /= <<>> THEN safe_part(title, TitleMaxLen) ELSE aid
           sn == safe_part(s_name, StudentMaxLen)
           joined == cn \o Dunder \o at \o Dunder \o sn \o Dunder \o student_id
       IN  /\ class_name' = cn
           /\ assessment_title' = at
           /\ student_name' = sn
           /\ prefix' = Strip(ReSubRuns(joined, WhiteSpace))
    /\ cpc' = "name"
    /\ UNCHANGED <<c_name, title, aid, s_name, student_id, a_filename,
                   original, out_name, out_kind, marked_name, m>>

\* The download folder when `clashes` files already carry the desired name
\* and its first numbered variants.
FolderWith(desired, clashes) ==
    IF clashes = 0 THEN Folder({})
    ELSE Folder({desired} \cup {Candidate(desired, i) : i \in 2..clashes})

\* main.py 441-445: the name of a directly downloaded pdf attachment.
NamePdf ==
    /\ cpc = "name"
    /\ LET orig == safe_part(a_filename, FileMaxLen)
           n1   == prefix \o Dunder \o orig
           n2   == IF ~EndsWith(Lower(n1), DotPdf) THEN n1 \o DotPdf ELSE n1
       IN  /\ original' = orig
           /\ \E clashes \in 0..2 :
                out_name' = unique_path(FolderWith(n2, clashes), n2, 0)
    /\ out_kind' = "pdf"
    /\ cpc' = "mark"
    /\ UNCHANGED <<c_name, title, aid, s_name, student_id, a_filename,
                   class_name, assessment_title, student_name, prefix,
                   marked_name, m>>

\* main.py 477-478: the name of the pdf merged from a submission's images.
NameImagesPdf ==
    /\ cpc = "name"
    /\ \E clashes \in 0..2 :
         LET n == prefix \o Dunder \o <<"i","m","a","g","e","s">> \o DotPdf
         IN  out_name' = unique_path(FolderWith(n, clashes), n, 0)
    /\ out_kind' = "images"
    /\ cpc' = "mark"
    /\ UNCHANGED <<c_name, title, aid, s_name, student_id, a_filename,
                   class_name, assessment_title, student_name, prefix,
                   original, marked_name, m>>

\* app.py 154-160: the marker keeps the name and adds " Marked" before ".pdf".
MarkByHuman ==
    /\ cpc = "mark"
    /\ marked_name' = Slice(out_name, 1, Len(out_name) - 4)
                        \o <<" ","M","a","r","k","e","d">>
                        \o Slice(out_name, Len(out_name) - 3, Len(out_name))
    /\ cpc' = "decode"
    /\ UNCHANGED <<c_name, title, aid, s_name, student_id, a_filename,
                   class_name, assessment_title, student_name, prefix,
                   original, out_name, out_kind, m>>

\* upload_marked.py 188: m = FILENAME_RE.match(pdf.name)
Decode ==
    /\ cpc = "decode"
    /\ m' = FILENAME_RE_match(marked_name)
    /\ cpc' = "decoded"
    /\ UNCHANGED <<c_name, title, aid, s_name, student_id, a_filename,
                   class_name, assessment_title, student_name, prefix,
                   original, out_name, out_kind, marked_name>>

(***************************************************************************)
(* The decoder alone, on the names a folder may hold.                      *)
(***************************************************************************)
\* Segments a name is joined from: free text, 24-hex ids, and near-ids of 23
\* characters or with a character that is no hex digit.
Hex23 == SubSeq(HexH, 1, IdLen - 1)
HexG  == SubSeq(HexH, 1, IdLen - 1) \o <<"g">>
NameSegments == { <<"x">>, AidA, SidB, Hex23, HexG }

\* What follows the last segment.
NameEndings ==
    { <<" ","M","a","r","k","e","d",".","p","d","f">>,
      <<"\t","m","a","r","k","e","d",".","P","D","F">>,
      <<"M","a","r","k","e","d",".","p","d","f">>,
      <<".","p","d","f">>,
      <<" ","M","a","r","k","e","d",".","p","d","f","x">> }

RECURSIVE JoinWith(_, _)
\* sep.join(parts)
JoinWith(parts, sep) ==
    IF Len(parts) = 0 THEN <<>>
    ELSE IF Len(parts) = 1 THEN parts[1]
    ELSE parts[1] \o sep \o JoinWith(Tail(parts), sep)

RECURSIVE Split(_)
\* s.split("__")
Split(s) ==
    IF ~Contains(s, Dunder) THEN <<s>>
    ELSE LET i == CHOOSE k \in 1..Len(s) :
                    HasAt(s, k, Dunder) /\ \A j \in 1..(k - 1) : ~HasAt(s, j, Dunder)
         IN  <<Slice(s, 1, i - 1)>> \o Split(Slice(s, i + 2, Len(s)))

\* The codec is not running.
CodecIdle ==
    /\ cpc = "idle"
    /\ c_name = <<>>
    /\ title = <<>>
    /\ aid = <<>>
    /\ s_name = <<>>
    /\ student_id = <<>>
    /\ a_filename = <<>>
    /\ class_name = <<>>
    /\ assessment_title = <<>>
    /\ student_name = <<>>
    /\ prefix = <<>>
    /\ original = <<>>
    /\ out_name = <<>>
    /\ out_kind = "none"
    /\ marked_name = <<>>
    /\ m = NoMatch

DecodeInit ==
    /\ cpc = "decode"
    /\ \E n \in 1..MaxNameTok : \E segs \in [1..n -> NameSegments] : \E e \in NameEndings :
         marked_name = JoinWith(segs, Dunder) \o e
    /\ c_name = <<>>
    /\ title = <<>>
    /\ aid = <<>>
    /\ s_name = <<>>
    /\ student_id = <<>>
    /\ a_filename = <<>>
    /\ class_name = <<>>
    /\ assessment_title = <<>>
    /\ student_name = <<>>
    /\ prefix = <<>>
    /\ original = <<>>
    /\ out_name = <<>>
    /\ out_kind = "none"
    /\ m = NoMatch

(***************************************************************************)
(* Documents returned by the remote API: trees of dicts (ordered pairs of  *)
(* key and value, as Python dicts keep insertion order), lists, numbers,   *)
(* strings and null.  A number is the pair <<hi, lo>> standing for         *)
(* hi * 10^6 + lo.  A string that dateutil's parser can parse is a "date"  *)
(* node that carries the instant the string names.                         *)
(***************************************************************************)
Null == [t |-> "null"]
Dict(pairs) == [t |-> "dict", kv |-> pairs]
List(items) == [t |-> "list", items |-> items]
Num(hi, lo) == [t |-> "num", hi |-> hi, lo |-> lo]
Str(chars) == [t |-> "str", s |-> chars]
Date(inst) == [t |-> "date", inst |-> inst]

\* The base of the two-part numbers.
Mega == 1000000

\* k in d
HasKey(d, k) == d.t = "dict" /\ \E i \in 1..Len(d.kv) : d.kv[i][1] = k

\* d.get(k)
DGet(d, k) ==
    IF HasKey(d, k)
    THEN d.kv[CHOOSE i \in 1..Len(d.kv) : d.kv[i][1] = k][2]
    ELSE Null

\* bool(x)
Truthy(x) ==
    CASE x.t = "null" -> FALSE
      [] x.t = "num"  -> x.hi /= 0 \/ x.lo /= 0
      [] x.t = "str"  -> x.s /= <<>>
      [] x.t = "date" -> TRUE
      [] x.t = "list" -> x.items /= <<>>
      [] x.t = "dict" -> x.kv /= <<>>

\* x or y
POr(x, y) == IF Truthy(x) THEN x ELSE y

\* The children of a node, in iteration order.
Children(x) ==
    CASE x.t = "dict" -> [i \in 1..Len(x.kv) |-> x.kv[i][2]]
      [] x.t = "list" -> x.items
      [] OTHER        -> <<>>

(***************************************************************************)
(* main.py: extract_attachments.  The fields of a raw attachment entry are *)
(* strings, null or missing; a missing or null field reads as the empty    *)
(* string, which the code treats as it treats None.                        *)
(***************************************************************************)
\* Entries in one submission's attachment list.
MaxAtts == 3

\* a.get(k), with "" for None
Get(a, k) == IF DGet(a, k).t = "str" THEN DGet(a, k).s ELSE <<>>

\* x or y
Or(x, y) == IF x /= <<>> THEN x ELSE y

Http == <<"h","t","t","p">>

\* The least element of a non-empty set of numbers.
Min(S) == CHOOSE a \in S : \A b \in S : a <= b

SchemeChars ==
    {LowerSeq[i] : i \in 1..26} \cup {UpperSeq[i] : i \in 1..26}
        \cup {Digits[i] : i \in 1..10} \cup {"+", "-", "."}

\* urlparse(url).path for a url that starts with a letter: the scheme ends at
\* the first ":" when only scheme characters precede it, "//" then opens the
\* network location, which ends at the first "/", "?" or "#", and the path
\* ends at the first "?" or "#".
UrlPath(url) ==
    LET colons == {i \in 1..Len(url) : url[i] = ":"}
        colon  == IF colons = {} THEN 0 ELSE Min(colons)
        scheme == colon > 1 /\ \A i \in 1..(colon - 1) : url[i] \in SchemeChars
        rest   == IF scheme THEN colon + 1 ELSE 1
        netloc == HasAt(url, rest, <<"/","/">>)
        stops  == {i \in (rest + 2)..Len(url) : url[i] \in {"/", "?", "#"}}
        start  == IF ~netloc THEN rest
                  ELSE IF stops = {} THEN Len(url) + 1 ELSE Min(stops)
        ends   == {i \in start..Len(url) : url[i] \in {"?", "#"}}
        stop   == IF ends = {} THEN Len(url) ELSE Min(ends) - 1
    IN  Slice(url, start, stop)

\* pathlib.Path(p).name: the last component of p that is neither empty nor ".".
PathName(p) ==
    LET IsStart(i) == p[i] /= "/" /\ (i = 1 \/ p[i - 1] = "/")
        EndOf(i)   == Min({k \in i..Len(p) : k = Len(p) \/ p[k + 1] = "/"})
        starts     == {i \in 1..Len(p) : IsStart(i) /\ Slice(p, i, EndOf(i)) /= <<".">>}
    IN  IF starts = {} THEN <<>>
        ELSE LET lo == CHOOSE i \in starts : \A k \in starts : i >= k
             IN  Slice(p, lo, EndOf(lo))

IMAGE_EXTS == { <<".","p","n","g">>, <<".","j","p","g">>,
                <<".","j","p","e","g">>, <<".","w","e","b","p">> }

ImageTypes == { <<"i","m","a","g","e">>, <<"p","n","g">>, <<"j","p","g">>,
                <<"j","p","e","g">>, <<"w","e","b","p">> }

\* main.py 295-297
AttType(a)  == Lower(Get(a, "type"))
AttFname(a) == Or(Get(a, "filename"), Or(Get(a, "fileName"), Get(a, "name")))
AttS3Key(a) == Or(Get(a, "s3Key"), Get(a, "key"))

\* main.py 300: the url, "path" preferred
AttUrl(a) ==
    Or(Get(a, "path"), Or(Get(a, "s3FilePath"), Or(Get(a, "url"), Get(a, "downloadUrl"))))

\* main.py 301: isinstance(url, str) and url.startswith("http")
UrlOk(a) == HasAt(AttUrl(a), 1, Http)

\* main.py 305
AttExt(a) ==
    IF AttFname(a) /= <<>>
    THEN Lower(PathSuffix(PathName(AttFname(a))))
    ELSE Lower(PathSuffix(PathName(UrlPath(AttUrl(a)))))

\* main.py 306-312: "pdf", "image", or "none" for an entry that is discarded
AttKind(a) ==
    IF AttType(a) = <<"p","d","f">> \/ AttExt(a) = DotPdf THEN "pdf"
    ELSE IF AttType(a) \in ImageTypes \/ AttExt(a) \in IMAGE_EXTS THEN "image"
    ELSE "none"

\* main.py 320: keyname = (fname or url).lower()
KeyName(a) == Lower(Or(AttFname(a), AttUrl(a)))

\* main.py 325-328: the descriptor appended to picked
Descriptor(a) ==
    [kind     |-> AttKind(a),
     url      |-> AttUrl(a),
     filename |-> IF AttFname(a) /= <<>> THEN AttFname(a)
                  ELSE Or(PathName(UrlPath(AttUrl(a))),
                          <<"a","t","t","a","c","h","m","e","n","t">> \o AttExt(a)),
     s3Key    |-> AttS3Key(a)]

\* isinstance(a, dict)
IsDict(a) == a.t = "dict"

VARIABLES
    apc,          \* "loop" while extract_attachments iterates, then "done"
    attachments,  \* sub.get("attachments")
    att_i,        \* the index of the entry the loop is at
    picked,       \* the descriptors retained so far
    seen_keys,    \* storage keys seen
    seen_names    \* lowercased names seen of entries without a storage key

attVars == <<apc, attachments, att_i, picked, seen_keys, seen_names>>

\* The raw entries attachment lists are drawn from: entries sharing the
\* storage key k1 under different filenames, an entry without a key whose
\* filename is that key, entries without a key whose names differ by case
\* only, an unsupported type, a url that is not http, entries without a
\* filename, and an entry that is no dict.
AttEntries ==
    {
      Dict(<<<<"s3Key", Str(<<"k","1">>)>>, <<"filename", Str(<<"a",".","p","d","f">>)>>, <<"path", Str(<<"h","t","t","p",":","/","/","h","/","a",".","p","d","f">>)>>>>),
      Dict(<<<<"s3Key", Str(<<"k","1">>)>>, <<"filename", Str(<<"b",".","p","d","f">>)>>, <<"path", Str(<<"h","t","t","p",":","/","/","h","/","b",".","p","d","f">>)>>>>),
      Dict(<<<<"key", Str(<<"k","1">>)>>, <<"name", Str(<<"c",".","p","n","g">>)>>, <<"url", Str(<<"h","t","t","p",":","/","/","h","/","c",".","p","n","g">>)>>>>),
      Dict(<<<<"s3Key", Str(<<"k","1">>)>>, <<"filename", Str(<<"n",".","t","x","t">>)>>, <<"path", Str(<<"h","t","t","p",":","/","/","h","/","n",".","t","x","t">>)>>>>),
      Dict(<<<<"filename", Str(<<"k","1">>)>>, <<"type", Str(<<"P","D","F">>)>>, <<"url", Str(<<"h","t","t","p",":","/","/","h","/","d">>)>>>>),
      Dict(<<<<"fileName", Str(<<"A",".","P","D","F">>)>>, <<"s3FilePath", Str(<<"h","t","t","p",":","/","/","h","/","e",".","p","d","f">>)>>>>),
      Dict(<<<<"name", Str(<<"a",".","p","d","f">>)>>, <<"downloadUrl", Str(<<"h","t","t","p",":","/","/","h","/","f",".","p","d","f">>)>>>>),
      Dict(<<<<"s3Key", Str(<<"k","2">>)>>, <<"filename", Str(<<"p",".","p","n","g">>)>>, <<"path", Str(<<"h","t","t","p",":","/","/","h","/","p",".","p","n","g">>)>>, <<"url", Str(<<"f","t","p",":","/","/","h","/","q",".","p","d","f">>)>>>>),
      Dict(<<<<"filename", Str(<<"a",".","p","d","f">>)>>, <<"path", Str(<<"f","t","p",":","/","/","h","/","a",".","p","d","f">>)>>>>),
      Dict(<<<<"path", Str(<<"h","t","t","p",":","/","/","h","/","d","/","x",".","p","d","f","?","v","=","1">>)>>>>),
      Dict(<<<<"type", Str(<<"i","m","a","g","e">>)>>, <<"url", Str(<<"h","t","t","p",":","/","/","h","/","i","/">>)>>>>),
      Str(<<"x">>) }

AttInit ==
    /\ apc = "loop"
    /\ \E n \in 0..MaxAtts : attachments \in [1..n -> AttEntries]
    /\ att_i = 1
    /\ picked = <<>>
    /\ seen_keys = {}
    /\ seen_names = {}

\* main.py 292-312: whether the entry reaches the dedupe step.
Acceptable(a) == IsDict(a) /\ UrlOk(a) /\ AttKind(a) /= "none"

\* A dedupe step that forgets the storage keys it has seen.
IsDuplicate_KeysForgotten(a, keys, names) ==
    IF AttS3Key(a) /= <<>> THEN FALSE ELSE KeyName(a) \in names

\* main.py 315-323: whether the dedupe step drops the entry.
IsDuplicate(a, keys, names) ==
    IF AttS3Key(a) /= <<>> THEN AttS3Key(a) \in keys ELSE KeyName(a) \in names

\* main.py 292-293, 301-302, 311-312: continue
SkipEntry ==
    /\ apc = "loop"
    /\ att_i <= Len(attachments)
    /\ ~Acceptable(attachments[att_i])
    /\ att_i' = att_i + 1
    /\ UNCHANGED <<apc, attachments, picked, seen_keys, seen_names>>

\* main.py 316-317, 321-322: a later entry with a key or name already seen
DropDuplicate ==
    /\ apc = "loop"
    /\ att_i <= Len(attachments)
    /\ Acceptable(attachments[att_i])
    /\ IsDuplicate(attachments[att_i], seen_keys, seen_names)
    /\ att_i' = att_i + 1
    /\ UNCHANGED <<apc, attachments, picked, seen_keys, seen_names>>

\* main.py 318, 323, 325-328: the entry is recorded and appended
PickEntry ==
    /\ apc = "loop"
    /\ att_i <= Len(attachments)
    /\ LET a == attachments[att_i]
       IN  /\ Acceptable(a)
           /\ ~IsDuplicate(a, seen_keys, seen_names)
           /\ IF AttS3Key(a) /= <<>>
              THEN /\ seen_keys' = seen_keys \cup {AttS3Key(a)}
                   /\ UNCHANGED seen_names
              ELSE /\ seen_names' = seen_names \cup {KeyName(a)}
                   /\ UNCHANGED seen_keys
           /\ picked' = Append(picked, Descriptor(a))
    /\ att_i' = att_i + 1
    /\ UNCHANGED <<apc, attachments>>

\* main.py 330: return picked
ReturnPicked ==
    /\ apc = "loop"
    /\ att_i > Len(attachments)
    /\ apc' = "done"
    /\ UNCHANGED <<attachments, att_i, picked, seen_keys, seen_names>>

\* extract_attachments is not running.
AttIdle ==
    /\ apc = "idle"
    /\ attachments = <<>>
    /\ att_i = 0
    /\ picked = <<>>
    /\ seen_keys = {}
    /\ seen_names = {}

(***************************************************************************)
(* main.py: parse_dt and find_any_timestamp.  A datetime is the number of  *)
(* milliseconds since the epoch, as a two-part number (parse_dt gives      *)
(* every datetime the zone UTC).  Numbers are non-negative integers.  A    *)
(* call yields None, a datetime, or Raises when an exception leaves it.    *)
(***************************************************************************)
None == [none |-> TRUE]
Raises == [raises |-> TRUE]
DT(inst) == [inst |-> inst]

\* 10_000_000_000, as a two-part number
MsThreshold == <<10000, 0>>

\* The first number of milliseconds that datetime.fromtimestamp(v / 1000)
\* refuses: the year 10000.
YearTenThousandMs == <<253402300, 800000>>

\* a < b for two-part numbers
Less(a, b) == a[1] < b[1] \/ (a[1] = b[1] /\ a[2] < b[2])

\* The milliseconds in n seconds.
FromSeconds(n) == <<n[1] * 1000 + n[2] \div 1000, (n[2] % 1000) * 1000>>

\* parse_dt(value)
parse_dt(value) ==
    IF ~Truthy(value) THEN None
    ELSE IF value.t = "num"
         THEN LET v == <<value.hi, value.lo>>
              IN  IF Less(MsThreshold, v)
                  THEN IF Less(v, YearTenThousandMs) THEN DT(v) ELSE Raises
                  ELSE DT(FromSeconds(v))
    ELSE IF value.t = "date" THEN DT(value.inst)
    ELSE None

COMMON_KEYS ==
    <<"submittedAt", "submitted_at", "submissionTime", "submittedOn",
      "createdAt", "updatedAt", "time", "timestamp", "date">>

RECURSIVE Found(_)
\* What walk(x) of find_any_timestamp gets from parse_dt, in order, the
\* None results left out.
Found(x) ==
    LET own  == IF x.t = "dict"
                THEN SelectSeq([i \in 1..Len(COMMON_KEYS) |-> parse_dt(DGet(x, COMMON_KEYS[i]))],
                               LAMBDA dt : dt /= None)
                ELSE <<>>
        kids == Children(x)
    IN  own \o Join([i \in 1..Len(kids) |-> Found(kids[i])])

\* max(found)
MaxDt(found) ==
    found[CHOOSE i \in 1..Len(found) :
            \A k \in 1..Len(found) : ~Less(found[i].inst, found[k].inst)]

\* find_any_timestamp(obj)
find_any_timestamp(obj) ==
    LET found == Found(obj)
    IN  IF \E i \in 1..Len(found) : found[i] = Raises THEN Raises
        ELSE IF found /= <<>> THEN MaxDt(found)
        ELSE None

(***************************************************************************)
(* main.py: find_submission_lists_anywhere.                                *)
(***************************************************************************)
SUBMISSION_HINT_KEYS ==
    {"studentId", "student_id", "submissionId", "submission_id",
     "attachments", "files", "submittedAt"}

\* x[:10]
HintWindow == 10

looks_like_submission_dict(d) == \E k \in SUBMISSION_HINT_KEYS : HasKey(d, k)

\* The score of a list: how many of its first 10 elements look like a
\* submission.
Score(items) ==
    Cardinality({i \in 1..Len(items) : i <= HintWindow /\ looks_like_submission_dict(items[i])})

\* The list node x is appended to matches.
IsCandidate(x) ==
    /\ x.t = "list"
    /\ x.items /= <<>>
    /\ \A i \in 1..Len(x.items) : x.items[i].t = "dict"
    /\ Score(x.items) > 0

RECURSIVE find_submission_lists_anywhere(_)
\* The lists in `matches`, in the order walk meets them (the paths, which
\* only label them, are left out).
find_submission_lists_anywhere(x) ==
    LET kids == Children(x)
    IN  (IF IsCandidate(x) THEN <<x.items>> ELSE <<>>)
          \o Join([i \in 1..Len(kids) |-> find_submission_lists_anywhere(kids[i])])

\* A selection that takes the first candidate the walk met.
SelectSubmissions_FirstMet(cands) == cands[1]

\* candidate_lists.sort(key=len, reverse=True); candidate_lists[0]: the sort
\* is stable, so the first of the longest lists comes first.
SelectSubmissions(cands) ==
    cands[CHOOSE i \in 1..Len(cands) :
            /\ \A k \in 1..Len(cands) : Len(cands[k]) <= Len(cands[i])
            /\ \A k \in 1..(i - 1) : Len(cands[k]) < Len(cands[i])]

(***************************************************************************)
(* main.py: extract_student_id, extract_student_name and the title lookup. *)
(* The identity fields of a document are strings, dicts, null or missing.  *)
(***************************************************************************)
IsStr(x) == x.t = "str"

\* str(x or "")
StrOf(x) == IF IsStr(x) THEN x.s ELSE <<>>

extract_student_id(sub) ==
    LET v == POr(DGet(sub, "student_id"), POr(DGet(sub, "studentId"), DGet(sub, "student")))
    IN  IF IsStr(v) THEN v.s
        ELSE IF IsDict(v) THEN StrOf(POr(DGet(v, "_id"), DGet(v, "id")))
        ELSE <<>>

UnknownStudent == <<"u","n","k","n","o","w","n","_","s","t","u","d","e","n","t">>

extract_student_name(sub) ==
    LET v       == DGet(sub, "studentId")
        student == DGet(sub, "student")
        first   == POr(DGet(student, "firstName"), DGet(student, "first_name"))
        last    == POr(DGet(student, "lastName"), DGet(student, "last_name"))
        named   == SelectSeq(<<"name", "fullName">>, LAMBDA k : Truthy(DGet(student, k)))
        flat    == SelectSeq(<<"studentName", "student_name", "fullName", "name">>,
                             LAMBDA k : IsStr(DGet(sub, k)) /\ Strip(DGet(sub, k).s) /= <<>>)
    IN  IF IsDict(v) /\ IsStr(DGet(v, "name")) THEN Strip(DGet(v, "name").s)
        ELSE IF IsDict(student) /\ (Truthy(first) \/ Truthy(last))
             THEN JoinWith(SelectSeq(<<StrOf(first), StrOf(last)>>, LAMBDA x : x /= <<>>), <<" ">>)
        ELSE IF IsDict(student) /\ named /= <<>> THEN Strip(StrOf(DGet(student, named[1])))
        ELSE IF flat /= <<>> THEN Strip(DGet(sub, flat[1]).s)
        ELSE UnknownStudent

\* main.py 405: the places a title is looked for, in order
TitlePaths == << <<"data", "title">>, <<"title">>, <<"data", "name">>, <<"name">> >>

\* The value at the path, Null when a part of the path is missing.
AtPath(doc, pth) ==
    IF Len(pth) = 1 THEN DGet(doc, pth[1]) ELSE DGet(DGet(doc, pth[1]), pth[2])

\* main.py 403-417: the title, <<>> for None
BestEffortTitle(doc) ==
    LET good == SelectSeq(TitlePaths,
                          LAMBDA pth : IsStr(AtPath(doc, pth)) /\ Strip(AtPath(doc, pth).s) /= <<>>)
    IN  IF good = <<>> THEN <<>> ELSE Strip(AtPath(doc, good[1]).s)

(***************************************************************************)
(* main.py: main, for one assessment of one class.  The download folder    *)
(* and the scratch folder are the sets of the names they hold.             *)
(***************************************************************************)
VARIABLES
    dpc,                \* where main is: "timeline", "fetch", "sub", "extract",
                        \* "pdf", "images", "merge", "cleanup", "done";
                        \* "crashed" when parse_dt raised and "aborted" when
                        \* wise_get raised, the exception leaving main
    assessment,         \* get_assessment(aid)
    since,              \* the cutoff
    submissions,        \* candidate_lists[0]
    sub_i,              \* the index of the submission the loop is at
    ts,                 \* find_any_timestamp(sub)
    decisions,          \* what the recency filter did with each submission
    a_k,                \* the index in pdf_atts or image_atts
    image_paths,        \* the images staged for the current submission
    files,              \* the names in DOWNLOAD_ROOT
    tmp_files,          \* the names in DOWNLOAD_ROOT/_tmp_images
    tmp_dir,            \* whether DOWNLOAD_ROOT/_tmp_images exists
    now,                \* the last reading of the clock, in seconds
    clobbered,          \* the paths opened for writing that held a file
    last_call,          \* the last call of unique_path: how many there were,
                        \* the folder, the desired name and the path returned
    downloaded_pdfs,
    created_image_pdfs,
    ignored_no_files,
    made                \* what was done for the submission the loop is at: the
                        \* pdfs downloaded, the image downloads and the merges
                        \* tried, the merged pdfs created (the history of one
                        \* pass of the loop; main keeps no such variable)

dlVars == <<dpc, assessment, since, submissions, sub_i, ts, decisions, a_k,
            image_paths, files, tmp_files, tmp_dir, now, clobbered,
            last_call, downloaded_pdfs, created_image_pdfs, ignored_no_files,
           made>>

\* The clock's reading when the run starts, and how far it may advance.
Epoch0 == 1700000000
MaxTicks == 1

DAYS_BACK == 7
SecondsPerDay == 86400

\* since, for a run that starts at `start` seconds
SinceOf(start) ==
    LET sec == start - DAYS_BACK * SecondsPerDay
    IN  FromSeconds(<<sec \div Mega, sec % Mega>>)

NoCall == [n |-> 0, dir |-> "none", desired |-> <<>>, path |-> <<>>]

\* main.py 438, 456
\* Nothing was done yet for the submission.
NoneMade == [pdfs |-> 0, images |-> 0, merges |-> 0, merged |-> 0]

\* Taking the image path whenever there are images.
UsesImages_Always(pdf_atts, image_atts) == image_atts /= <<>>

\* main.py 455-457: if not pdf_atts: ... if image_atts:
UsesImages(pdf_atts, image_atts) == pdf_atts = <<>> /\ image_atts /= <<>>

PdfAtts(atts)   == SelectSeq(atts, LAMBDA a : a.kind = "pdf")
ImageAtts(atts) == SelectSeq(atts, LAMBDA a : a.kind = "image")

\* A filter that also skips a submission timestamped at the cutoff.
TooOld_Inclusive(t, cutoff) == t /= None /\ t /= Raises /\ ~Less(cutoff, t.inst)

\* main.py 423: ts is not None and ts < since
TooOld(t, cutoff) == t /= None /\ t /= Raises /\ Less(t.inst, cutoff)

\* How a download or a conversion ends: the file is written; an exception
\* before the file is opened; an exception after the file was opened.
Outcomes == {"ok", "refused", "broken"}

\* unique_path has read the clock when it returns the variant numbered with
\* the reading: the readings are beyond the indices of the loop.
ReadsClock(desired, path, reading) == path = Candidate(desired, reading)

\* The clock readings that may follow the reading `last`.
Readings(last) == {r \in last..(last + 1) : r <= Epoch0 + MaxTicks}

\* f"{idx:02d}"
Pad2(idx) == IF idx < 10 THEN <<"0">> \o IntToStr(idx) ELSE IntToStr(idx)

Range(seq) == {seq[i] : i \in 1..Len(seq)}

(***************************************************************************)
(* The documents a run is given.                                           *)
(***************************************************************************)
\* Submissions in a list, elements without a submission key in a list,
\* submissions with a timestamp in a list, attachments of a submission.
MaxSubs == 5
MaxPlain == 2
MaxRecent == 2
MaxFileAtts == 2

Url(tail) == Http \o <<":","/","/","h","/">> \o tail

\* Two pdf attachments that share a filename (one has a storage key, the
\* other has none), two images, one of which shares the first pdf's key,
\* an image without a filename, and a file of an unsupported type.
PdfOne  == Dict(<< <<"s3Key", Str(<<"k","1">>)>>, <<"filename", Str(<<"a",".","p","d","f">>)>>,
                   <<"path", Str(Url(<<"a",".","p","d","f">>))>> >>)
PdfTwo  == Dict(<< <<"name", Str(<<"a",".","p","d","f">>)>>,
                   <<"downloadUrl", Str(Url(<<"f",".","p","d","f">>))>> >>)
PngOne  == Dict(<< <<"s3Key", Str(<<"k","2">>)>>, <<"filename", Str(<<"p",".","p","n","g">>)>>,
                   <<"path", Str(Url(<<"p",".","p","n","g">>))>> >>)
PngDup  == Dict(<< <<"key", Str(<<"k","1">>)>>, <<"name", Str(<<"c",".","p","n","g">>)>>,
                   <<"url", Str(Url(<<"c",".","p","n","g">>))>> >>)
ImgBare == Dict(<< <<"type", Str(<<"i","m","a","g","e">>)>>, <<"url", Str(Url(<<"i","/">>))>> >>)
TxtOne  == Dict(<< <<"s3Key", Str(<<"k","3">>)>>, <<"filename", Str(<<"n",".","t","x","t">>)>>,
                   <<"path", Str(Url(<<"n",".","t","x","t">>))>> >>)

FileEntries == {PdfOne, PdfTwo, PngOne, PngDup, ImgBare, TxtOne}

\* The student of the submissions that carry files.
Student == <<"studentId", Dict(<< <<"_id", Str(<<"s","1">>)>>, <<"name", Str(<<" ","A","l"," ">>)>> >>)>>

\* A submission with the given extra fields and attachments.
Submission(fields, atts) == Dict(<<Student>> \o fields \o << <<"attachments", List(atts)>> >>)

\* The cutoff of a run that starts at Epoch0, in seconds and in milliseconds.
CutSec == <<(Epoch0 - DAYS_BACK * SecondsPerDay) \div Mega, (Epoch0 - DAYS_BACK * SecondsPerDay) % Mega>>
CutMs  == SinceOf(Epoch0)

\* The timestamps of a submission: none at all; seconds and milliseconds
\* before, at and after the cutoff; a zero; a string that does not parse; a
\* key that is no timestamp key; date strings; timestamps deeper in the
\* record that are later or earlier than the one on top; the seconds and
\* milliseconds at the threshold between the two; milliseconds in the year
\* 10000.
TimeShapes ==
    { <<>>,
      << <<"submittedAt", Num(CutSec[1], CutSec[2] - 1)>> >>,
      << <<"submittedAt", Num(CutSec[1], CutSec[2])>> >>,
      << <<"submittedAt", Num(CutMs[1], CutMs[2])>> >>,
      << <<"submitted_at", Num(CutMs[1], CutMs[2] - 1)>> >>,
      << <<"createdAt", Num(CutSec[1], CutSec[2] - 1)>>,
         <<"meta", Dict(<< <<"updatedAt", Num(CutMs[1], CutMs[2] + 1)>> >>)>> >>,
      << <<"submittedAt", Num(0, 0)>> >>,
      << <<"submittedAt", Str(<<"s","o","o","n">>)>> >>,
      << <<"gradedAt", Num(CutSec[1], CutSec[2] - 1)>> >>,
      << <<"date", Date(CutMs)>> >>,
      << <<"date", Date(<<CutMs[1], CutMs[2] - 1>>)>> >>,
      << <<"history", List(<< Dict(<< <<"time", Num(CutSec[1], CutSec[2] - 1)>> >>),
                              Dict(<< <<"timestamp", Num(CutSec[1], CutSec[2] - 2)>> >>) >>)>> >>,
      << <<"submittedAt", Num(MsThreshold[1], MsThreshold[2])>> >>,
      << <<"submittedAt", Num(MsThreshold[1], MsThreshold[2] + 1)>> >>,
      << <<"submittedAt", Num(YearTenThousandMs[1], YearTenThousandMs[2])>> >> }

\* An assessment whose only list is the given submissions.
Assessment(subs) == Dict(<< <<"data", Dict(<< <<"submissions", List(subs)>> >>)>> >>)

\* The timestamps of the submissions of a longer list: none; before the
\* cutoff; at the cutoff, as a number and as a date string; a later one below
\* an earlier one; one that makes parse_dt raise.
MixShapes ==
    { <<>>,
      << <<"submittedAt", Num(CutSec[1], CutSec[2] - 1)>> >>,
      << <<"submittedAt", Num(CutMs[1], CutMs[2])>> >>,
      << <<"date", Date(CutMs)>> >>,
      << <<"createdAt", Num(CutSec[1], CutSec[2] - 1)>>,
         <<"meta", Dict(<< <<"updatedAt", Num(CutMs[1], CutMs[2] + 1)>> >>)>> >>,
      << <<"submittedAt", Num(YearTenThousandMs[1], YearTenThousandMs[2])>> >> }

RecencyDocs ==
    { Assessment(<<Submission(shape, <<PdfOne>>)>>) : shape \in TimeShapes }
      \cup UNION { { Assessment([k \in 1..n |-> Submission(shapes[k], <<PdfOne>>)]) :
                      shapes \in [1..n -> MixShapes] } : n \in 2..MaxRecent }

FileDocs ==
    UNION { { Assessment(<<Submission(<<>>, atts)>>) : atts \in [1..n -> FileEntries] } :
              n \in 0..MaxFileAtts }

\* Elements of the lists of a document: a submission without files, and an
\* object without a submission key.
Bare(k)  == Dict(<< <<"studentId", Str(<<"s">> \o IntToStr(k))>> >>)
Plain(k) == Dict(<< <<"x", Num(0, k)>> >>)

\* The lists of a document: an empty one; objects without a submission key;
\* submissions; a submission next to a number; a list longer than the
\* window whose only submission lies behind the window; a list of lists.
Arrays ==
    { <<>> }
      \cup { [k \in 1..n |-> Plain(k)] : n \in 1..MaxPlain }
      \cup { [k \in 1..n |-> Bare(k)] : n \in 1..MaxSubs }
      \cup { <<Bare(1), Num(0, 1)>>,
             [k \in 1..(HintWindow + 1) |-> IF k <= HintWindow THEN Plain(k) ELSE Bare(k)],
             <<List(<<Bare(1), Bare(2)>>), List(<<Plain(1)>>)>> }

\* Documents with three lists at different depths, with and without a title.
ShapeDocs ==
    { Dict(<< <<"data", Dict(<< <<"title", Str(t)>>,
                                <<"questions", List(a)>>,
                                <<"submissions", List(b)>> >>)>>,
              <<"extra", Dict(<< <<"log", List(c)>> >>)>> >>) :
        a \in Arrays, b \in Arrays, c \in Arrays, t \in {<<"Q","u","i","z"," ","1">>} }
      \cup { List(<<Dict(<< <<"name", Str(<<" ">>)>>, <<"rows", List(a)>> >>)>>) : a \in Arrays }

\* The variables of the naming steps that main never writes while it works
\* on one assessment.
runFixed == <<cpc, c_name, aid, class_name, marked_name, m>>

\* The name main gives the first pdf of the student's submission, and the
\* name of the pdf merged from the student's images, when the assessment
\* has no title.
DesiredPdf ==
    <<"M">> \o Dunder \o <<"a","1">> \o Dunder \o <<"A","l">> \o Dunder \o <<"s","1">>
        \o Dunder \o <<"a",".","p","d","f">>
DesiredImages ==
    <<"M">> \o Dunder \o <<"a","1">> \o Dunder \o <<"A","l">> \o Dunder \o <<"s","1">>
        \o Dunder \o <<"i","m","a","g","e","s",".","p","d","f">>

\* Download folders a run may find: empty, or holding earlier downloads.
SmallFolders ==
    { Folder({}), Folder({DesiredPdf}), Folder({DesiredPdf, Candidate(DesiredPdf, 2)}),
      Folder({DesiredImages}) }

\* A folder in which the desired name and every numbered variant exist.
FullFolder ==
    [names |-> {DesiredPdf},
     runs  |-> {<<PathStem(DesiredPdf), PathSuffix(DesiredPdf), 2, UniqueLast>>}]

\* The documents processed in the full folder.
ClashDocs ==
    { Assessment(<<Submission(<<>>, <<PdfOne>>)>>),
      Assessment(<<Submission(<<>>, <<PdfOne, PdfTwo>>)>>) }

\* main.py 364-388: the run has reached an assessment of the class.
DownloadInit ==
    /\ dpc = "timeline"
    /\ \/ assessment \in ShapeDocs \cup RecencyDocs /\ files = Folder({})
       \/ assessment \in FileDocs /\ files \in SmallFolders
       \/ assessment \in ClashDocs /\ files = FullFolder
    /\ now = Epoch0
    /\ since = SinceOf(Epoch0)
    /\ submissions = <<>>
    /\ sub_i = 0
    /\ decisions = <<>>
    /\ a_k = 0
    /\ image_paths = <<>>
    /\ tmp_files = Folder({})
    /\ tmp_dir = FALSE
    /\ clobbered = {}
    /\ last_call = NoCall
    /\ downloaded_pdfs = 0
    /\ created_image_pdfs = 0
    /\ ignored_no_files = 0
    /\ made = NoneMade
    /\ ts = None
    /\ cpc = "idle"
    /\ c_name = <<"M">>
    /\ class_name = safe_part(<<"M">>, ClassMaxLen)
    /\ aid = <<"a","1">>
    /\ title = <<>>
    /\ s_name = <<>>
    /\ student_id = <<>>
    /\ a_filename = <<>>
    /\ assessment_title = <<>>
    /\ student_name = <<>>
    /\ prefix = <<>>
    /\ original = <<>>
    /\ out_name = <<>>
    /\ out_kind = "none"
    /\ marked_name = <<>>
    /\ m = NoMatch

\* main.py 396-419: the submission list and the title of the assessment.
SelectList ==
    /\ dpc = "fetch"
    /\ LET candidate_lists == find_submission_lists_anywhere(assessment)
           t == BestEffortTitle(assessment)
       IN  IF candidate_lists = <<>>
           THEN /\ dpc' = "done"
                /\ UNCHANGED <<submissions, sub_i, title, assessment_title>>
           ELSE /\ submissions' = SelectSubmissions(candidate_lists)
                /\ sub_i' = 1
                /\ title' = t
                /\ assessment_title' = IF t /= <<>> THEN safe_part(t, TitleMaxLen) ELSE aid
                /\ dpc' = "sub"
    /\ UNCHANGED <<last_call, assessment, since, ts, made, decisions, a_k, image_paths, files,
                   tmp_files, tmp_dir, now, clobbered, downloaded_pdfs,
                   created_image_pdfs, ignored_no_files>>
    /\ UNCHANGED <<runFixed, s_name, student_id, a_filename, student_name,
                   prefix, original, out_name, out_kind>>
    /\ UNCHANGED attVars

\* main.py 390: get_content_timeline returned.
GetTimeline ==
    /\ dpc = "timeline"
    /\ dpc' = "fetch"
    /\ UNCHANGED <<last_call, assessment, since, ts, made, submissions, sub_i, decisions, a_k,
                   image_paths, files, tmp_files, tmp_dir, now, clobbered,
                   downloaded_pdfs, created_image_pdfs, ignored_no_files>>
    /\ UNCHANGED <<codecVars, attVars>>

\* main.py 72-76, 390, 397: wise_get raises (a timeout, a refused connection,
\* raise_for_status) in get_content_timeline or in get_assessment; main has
\* no handler around either call.
WiseGetRaises ==
    /\ dpc \in {"timeline", "fetch"}
    /\ dpc' = "aborted"
    /\ UNCHANGED <<last_call, assessment, since, ts, made, submissions, sub_i, decisions, a_k,
                   image_paths, files, tmp_files, tmp_dir, now, clobbered,
                   downloaded_pdfs, created_image_pdfs, ignored_no_files>>
    /\ UNCHANGED <<codecVars, attVars>>

\* main.py 422: find_any_timestamp raises, and nothing catches it.
Crash ==
    /\ dpc = "sub"
    /\ sub_i <= Len(submissions)
    /\ find_any_timestamp(submissions[sub_i]) = Raises
    /\ ts' = Raises
    /\ dpc' = "crashed"
    /\ UNCHANGED <<last_call, assessment, since, made, submissions, sub_i, decisions, a_k,
                   image_paths, files, tmp_files, tmp_dir, now, clobbered,
                   downloaded_pdfs, created_image_pdfs, ignored_no_files>>
    /\ UNCHANGED <<codecVars, attVars>>

\* main.py 422-424: the recency filter skips the submission.
SkipOld ==
    /\ dpc = "sub"
    /\ sub_i <= Len(submissions)
    /\ TooOld(find_any_timestamp(submissions[sub_i]), since)
    /\ ts' = find_any_timestamp(submissions[sub_i])
    /\ decisions' = Append(decisions, "old")
    /\ sub_i' = sub_i + 1
    /\ UNCHANGED <<last_call, dpc, assessment, since, made, submissions, a_k, image_paths,
                   files, tmp_files, tmp_dir, now, clobbered, downloaded_pdfs,
                   created_image_pdfs, ignored_no_files>>
    /\ UNCHANGED <<codecVars, attVars>>

\* main.py 422-429, 283-289: the submission passes the filter, its student
\* is read and extract_attachments starts on its attachments.
OpenSubmission ==
    /\ dpc = "sub"
    /\ sub_i <= Len(submissions)
    /\ LET sub == submissions[sub_i]
           t   == find_any_timestamp(sub)
           sn  == extract_student_name(sub)
       IN  /\ t /= Raises
           /\ ~TooOld(t, since)
           /\ ts' = t
           /\ s_name' = sn
           /\ student_name' = safe_part(sn, StudentMaxLen)
           /\ student_id' = extract_student_id(sub)
           /\ attachments' = IF DGet(sub, "attachments").t = "list"
                             THEN DGet(sub, "attachments").items
                             ELSE <<>>
    /\ decisions' = Append(decisions, "kept")
    /\ made' = NoneMade
    /\ apc' = "loop"
    /\ att_i' = 1
    /\ picked' = <<>>
    /\ seen_keys' = {}
    /\ seen_names' = {}
    /\ dpc' = "extract"
    /\ UNCHANGED <<last_call, assessment, since, submissions, sub_i, a_k, image_paths,
                   files, tmp_files, tmp_dir, now, clobbered, downloaded_pdfs,
                   created_image_pdfs, ignored_no_files>>
    /\ UNCHANGED <<runFixed, title, a_filename, assessment_title, prefix,
                   original, out_name, out_kind>>

\* main.py 430-432: extract_attachments returned nothing.
NoFiles ==
    /\ dpc = "extract"
    /\ apc = "done"
    /\ picked = <<>>
    /\ ignored_no_files' = ignored_no_files + 1
    /\ sub_i' = sub_i + 1
    /\ dpc' = "sub"
    /\ UNCHANGED <<last_call, assessment, since, ts, made, submissions, decisions, a_k, image_paths,
                   files, tmp_files, tmp_dir, now, clobbered, downloaded_pdfs,
                   created_image_pdfs>>
    /\ UNCHANGED <<codecVars, attVars>>

\* main.py 435-438, 455-461: the prefix; the pdf attachments are taken when
\* there are any, the images otherwise, into a scratch folder that is made.
StartFiles ==
    /\ dpc = "extract"
    /\ apc = "done"
    /\ picked /= <<>>
    /\ LET joined == class_name \o Dunder \o assessment_title \o Dunder
                       \o student_name \o Dunder \o student_id
       IN  prefix' = Strip(ReSubRuns(joined, WhiteSpace))
    /\ a_k' = 1
    /\ image_paths' = <<>>
    /\ IF PdfAtts(picked) /= <<>>
       THEN dpc' = "pdf" /\ UNCHANGED <<tmp_dir, sub_i>>
       ELSE IF UsesImages(PdfAtts(picked), ImageAtts(picked))
            THEN dpc' = "images" /\ tmp_dir' = TRUE /\ UNCHANGED sub_i
            ELSE dpc' = "sub" /\ sub_i' = sub_i + 1 /\ UNCHANGED tmp_dir
    /\ UNCHANGED <<last_call, assessment, since, ts, made, submissions, decisions, files,
                   tmp_files, now, clobbered, downloaded_pdfs,
                   created_image_pdfs, ignored_no_files>>
    /\ UNCHANGED <<runFixed, title, s_name, student_id, a_filename,
                   assessment_title, student_name, original, out_name, out_kind>>
    /\ UNCHANGED attVars

\* main.py 439-452: one pdf attachment is named and downloaded; after the
\* last one the loop over the submissions goes on.
DownloadPdf ==
    /\ dpc = "pdf"
    /\ LET a    == PdfAtts(picked)[a_k]
           orig == safe_part(a.filename, FileMaxLen)
           n1   == prefix \o Dunder \o orig
           n2   == IF ~EndsWith(Lower(n1), DotPdf) THEN n1 \o DotPdf ELSE n1
       IN  \E r \in Readings(now) :
             LET out_path == unique_path(files, n2, r)
                 read     == ReadsClock(n2, out_path, r)
                 held     == Exists(files, out_path)
             IN  \E o \in Outcomes :
                 /\ a_filename' = a.filename
                 /\ original' = orig
                 /\ out_name' = out_path
                 /\ last_call' = [n |-> last_call.n + 1, dir |-> "root", desired |-> n2, path |-> out_path]
                 /\ now' = IF read THEN r ELSE now
                 /\ files' = IF o = "refused" THEN files ELSE WithFile(files, out_path)
                 /\ clobbered' = IF o /= "refused" /\ held
                                 THEN clobbered \cup {out_path}
                                 ELSE clobbered
                 /\ downloaded_pdfs' = IF o = "ok" THEN downloaded_pdfs + 1 ELSE downloaded_pdfs
                 /\ made' = IF o = "ok" THEN [made EXCEPT !.pdfs = @ + 1] ELSE made
    /\ out_kind' = "pdf"
    /\ IF a_k < Len(PdfAtts(picked))
       THEN a_k' = a_k + 1 /\ UNCHANGED <<dpc, sub_i, tmp_dir>>
       ELSE IF UsesImages(PdfAtts(picked), ImageAtts(picked))
            THEN a_k' = 1 /\ dpc' = "images" /\ tmp_dir' = TRUE /\ UNCHANGED sub_i
            ELSE a_k' = 0 /\ dpc' = "sub" /\ sub_i' = sub_i + 1 /\ UNCHANGED tmp_dir
    /\ UNCHANGED <<assessment, since, ts, submissions, decisions, image_paths,
                   tmp_files, created_image_pdfs, ignored_no_files>>
    /\ UNCHANGED <<runFixed, title, s_name, student_id, assessment_title,
                   student_name, prefix>>
    /\ UNCHANGED attVars

JpgExt == <<".","j","p","g">>

\* main.py 465-475: one image is named and downloaded to the scratch folder.
DownloadImage ==
    /\ dpc = "images"
    /\ LET a        == ImageAtts(picked)[a_k]
           suffix   == Lower(PathSuffix(PathName(a.filename)))
           ext      == IF suffix \notin IMAGE_EXTS THEN JpgExt ELSE suffix
           img_name == prefix \o Dunder \o <<"i","m","a","g","e","_">> \o Pad2(a_k) \o ext
       IN  \E r \in Readings(now) :
             LET img_path == unique_path(tmp_files, img_name, r)
                 read     == ReadsClock(img_name, img_path, r)
                 held     == Exists(tmp_files, img_path)
             IN  \E o \in Outcomes :
                 /\ now' = IF read THEN r ELSE now
                 /\ last_call' = [n |-> last_call.n + 1, dir |-> "tmp", desired |-> img_name, path |-> img_path]
                 /\ tmp_files' = IF o = "refused" THEN tmp_files ELSE WithFile(tmp_files, img_path)
                 /\ clobbered' = IF o /= "refused" /\ held
                                 THEN clobbered \cup {img_path}
                                 ELSE clobbered
                 /\ made' = [made EXCEPT !.images = @ + 1]
                 /\ image_paths' = IF o = "ok" THEN Append(image_paths, img_path) ELSE image_paths
                 /\ IF a_k < Len(ImageAtts(picked))
                    THEN a_k' = a_k + 1 /\ UNCHANGED dpc
                    ELSE /\ a_k' = 0
                         /\ dpc' = IF o = "ok" \/ image_paths /= <<>> THEN "merge" ELSE "cleanup"
    /\ UNCHANGED <<assessment, since, ts, submissions, sub_i, decisions, files,
                   tmp_dir, downloaded_pdfs, created_image_pdfs, ignored_no_files>>
    /\ UNCHANGED <<codecVars, attVars>>

\* main.py 476-484, 336-358: the staged images are merged into one pdf.
MergeImages ==
    /\ dpc = "merge"
    /\ LET out_pdf_name == prefix \o Dunder \o <<"i","m","a","g","e","s">> \o DotPdf
       IN  \E r \in Readings(now) :
             LET out_pdf_path == unique_path(files, out_pdf_name, r)
                 read         == ReadsClock(out_pdf_name, out_pdf_path, r)
                 held         == Exists(files, out_pdf_path)
             IN  \E o \in Outcomes :
                 /\ out_name' = out_pdf_path
                 /\ last_call' = [n |-> last_call.n + 1, dir |-> "root", desired |-> out_pdf_name, path |-> out_pdf_path]
                 /\ now' = IF read THEN r ELSE now
                 /\ files' = IF o = "refused" THEN files ELSE WithFile(files, out_pdf_path)
                 /\ clobbered' = IF o /= "refused" /\ held
                                 THEN clobbered \cup {out_pdf_path}
                                 ELSE clobbered
                 /\ made' = [made EXCEPT !.merges = @ + 1,
                                          !.merged = IF o = "ok" THEN @ + 1 ELSE @]
                 /\ created_image_pdfs' = IF o = "ok" THEN created_image_pdfs + 1
                                          ELSE created_image_pdfs
    /\ out_kind' = "images"
    /\ dpc' = "cleanup"
    /\ UNCHANGED <<assessment, since, ts, submissions, sub_i, decisions, a_k,
                   image_paths, tmp_files, tmp_dir, downloaded_pdfs,
                   ignored_no_files>>
    /\ UNCHANGED <<runFixed, title, s_name, student_id, a_filename,
                   assessment_title, student_name, prefix, original>>
    /\ UNCHANGED attVars

\* main.py 485-491: the staged images are unlinked.
Cleanup ==
    /\ dpc = "cleanup"
    /\ tmp_files' = WithoutFiles(tmp_files, Range(image_paths))
    /\ sub_i' = sub_i + 1
    /\ dpc' = "sub"
    /\ UNCHANGED <<last_call, assessment, since, ts, made, submissions, decisions, a_k, image_paths,
                   files, tmp_dir, now, clobbered, downloaded_pdfs,
                   created_image_pdfs, ignored_no_files>>
    /\ UNCHANGED <<codecVars, attVars>>

\* main.py 493-496: the submissions are through; the counters are printed.
Report ==
    /\ dpc = "sub"
    /\ sub_i > Len(submissions)
    /\ dpc' = "done"
    /\ UNCHANGED <<last_call, assessment, since, ts, made, submissions, sub_i, decisions, a_k,
                   image_paths, files, tmp_files, tmp_dir, now, clobbered,
                   downloaded_pdfs, created_image_pdfs, ignored_no_files>>
    /\ UNCHANGED <<codecVars, attVars>>

\* main is not running.
DownloadIdle ==
    /\ dpc = "idle"
    /\ assessment = Null
    /\ since = <<0, 0>>
    /\ submissions = <<>>
    /\ sub_i = 0
    /\ decisions = <<>>
    /\ a_k = 0
    /\ image_paths = <<>>
    /\ files = Folder({})
    /\ tmp_files = Folder({})
    /\ tmp_dir = FALSE
    /\ now = 0
    /\ clobbered = {}
    /\ last_call = NoCall
    /\ downloaded_pdfs = 0
    /\ created_image_pdfs = 0
    /\ ignored_no_files = 0
    /\ made = NoneMade
    /\ ts = None

(***************************************************************************)
(* upload_marked.py: main, upload_file_to_wise and attach_feedback.  A     *)
(* remote call either returns or raises.                                   *)
(***************************************************************************)
VARIABLES
    upc,            \* where main is: "loop" (at the head of the loop over the
                    \* files), "initiate", "put", "complete", "feedback",
                    \* "done", or "returned" when no file was found
    found,          \* list(base.glob("*Marked.pdf")), the names only
    file_i,         \* the index of the file the loop is at
    assessment_id,  \* m.group("assessment")
    attempt,        \* the attempt of upload_file_to_wise
    file_key,       \* init["data"]["fileKey"]
    file_data,      \* what upload_file_to_wise returned
    calls,          \* the remote calls made for the file the loop is at
    sent,           \* the payload of the last feedback call
    counted,        \* the counter each file went to, in the order of the loop
    uploaded,
    skipped,
    failed,
    any_raised      \* whether a remote call of the run has raised (the history
                    \* of the run; main keeps no such variable)

upVars == <<upc, found, file_i, assessment_id, attempt, file_key, file_data,
            calls, sent, counted, uploaded, skipped, failed, any_raised>>

\* Files in the folder.
MaxFiles == 3

MAX_RETRIES == 3

\* Names that end with "Marked.pdf": two that decode, one without the
\* identity prefix, and one without the blank before "Marked".
MarkedEnding == <<" ","M","a","r","k","e","d",".","p","d","f">>
MarkedNames ==
    { <<"x">> \o Dunder \o AidA \o Dunder \o <<"x">> \o Dunder \o SidB \o Dunder \o <<"x">> \o MarkedEnding,
      <<"y">> \o Dunder \o HexH \o Dunder \o <<"y">> \o Dunder \o AidA \o Dunder \o <<"y">> \o MarkedEnding,
      <<"x">> \o MarkedEnding,
      <<"x">> \o Dunder \o AidA \o Dunder \o <<"x">> \o Dunder \o SidB \o Dunder
          \o <<"x","M","a","r","k","e","d",".","p","d","f">> }

\* upload_marked.py 188: FILENAME_RE.match(pdf.name), for each name of the
\* folder.
Matches == [n \in MarkedNames |-> FILENAME_RE_match(n)]

\* The lists the glob may return: names of the folder, each once, in any
\* order.
FoundLists ==
    UNION { { f \in [1..n -> MarkedNames] : \A i, j \in 1..n : i /= j => f[i] /= f[j] } :
              n \in 0..MaxFiles }

NoData == [fileKey |-> <<>>, fileName |-> <<>>]
NoPayload == [assessmentId |-> <<>>, studentId |-> <<>>, fileKey |-> <<>>, fileName |-> <<>>]

\* upload_marked.py 158-185: the files were found and the counters are 0.
UploadInit ==
    /\ upc = "loop"
    /\ found \in FoundLists
    /\ file_i = 1
    /\ assessment_id = <<>>
    /\ attempt = 0
    /\ file_key = <<>>
    /\ file_data = NoData
    /\ calls = <<>>
    /\ sent = NoPayload
    /\ counted = <<>>
    /\ uploaded = 0
    /\ skipped = 0
    /\ failed = 0
    /\ any_raised = FALSE
    /\ CodecIdle

\* The variables of the naming steps that the upload never writes.
uploadFixed == <<cpc, c_name, title, aid, s_name, a_filename, class_name,
                 assessment_title, student_name, prefix, original, out_name,
                 out_kind>>

\* upload_marked.py 176-180: no file was found.
NothingFound ==
    /\ upc = "loop"
    /\ found = <<>>
    /\ upc' = "returned"
    /\ UNCHANGED <<found, file_i, assessment_id, attempt, file_key, file_data,
                   calls, sent, counted, uploaded, skipped, failed, any_raised>>
    /\ UNCHANGED codecVars

\* upload_marked.py 187-192: the name of the file does not decode.
SkipFile ==
    /\ upc = "loop"
    /\ file_i <= Len(found)
    /\ LET mm == Matches[found[file_i]]
       IN  /\ ~mm.matched
           /\ m' = mm
    /\ marked_name' = found[file_i]
    /\ skipped' = skipped + 1
    /\ counted' = Append(counted, "skipped")
    /\ calls' = <<>>
    /\ file_i' = file_i + 1
    /\ UNCHANGED <<upc, found, assessment_id, attempt, file_key, file_data,
                   sent, uploaded, failed, any_raised>>
    /\ UNCHANGED <<uploadFixed, student_id>>

\* upload_marked.py 187-199, 85-86: the name decodes; upload_file_to_wise
\* starts its first attempt.
StartUpload ==
    /\ upc = "loop"
    /\ file_i <= Len(found)
    /\ LET mm == Matches[found[file_i]]
       IN  /\ mm.matched
           /\ m' = mm
           /\ assessment_id' = mm.assessment
           /\ student_id' = mm.student_id
    /\ marked_name' = found[file_i]
    /\ attempt' = 1
    /\ calls' = <<>>
    /\ upc' = "initiate"
    /\ UNCHANGED <<found, file_i, file_key, file_data, sent, counted,
                   uploaded, skipped, failed, any_raised>>
    /\ UNCHANGED uploadFixed

\* A retry rule that gives up one attempt early.
CanRetry_OneLess(n) == n < MAX_RETRIES - 1

\* upload_marked.py 114: if attempt < MAX_RETRIES
CanRetry(n) == n < MAX_RETRIES

\* Leaving the loop at the first file that fails.
AfterFailure_Abort(i) == Len(found) + 1

\* upload_marked.py 203-205, 187: after "failed += 1" the loop goes on with
\* the next file.
AfterFailure(i) == i + 1

\* upload_marked.py 112-118, 203-205: an exception in an attempt.  The next
\* attempt follows, or the exception reaches main, which counts the file as
\* failed and goes on.
AttemptRaises(op) ==
    /\ calls' = Append(calls, [op |-> op, attempt |-> attempt, ok |-> FALSE])
    /\ any_raised' = TRUE
    /\ IF CanRetry(attempt)
       THEN /\ attempt' = attempt + 1
            /\ upc' = "initiate"
            /\ UNCHANGED <<file_i, counted, failed>>
       ELSE /\ failed' = failed + 1
            /\ counted' = Append(counted, "failed")
            /\ file_i' = AfterFailure(file_i)
            /\ upc' = "loop"
            /\ UNCHANGED attempt

\* upload_marked.py 88-97: the initiate call.
Initiate ==
    /\ upc = "initiate"
    /\ \/ /\ calls' = Append(calls, [op |-> "initiate", attempt |-> attempt, ok |-> TRUE])
          /\ file_key' = <<"k">> \o IntToStr(file_i) \o <<"-">> \o IntToStr(attempt)
          /\ upc' = "put"
          /\ UNCHANGED <<file_i, attempt, counted, failed, any_raised>>
       \/ /\ AttemptRaises("initiate")
          /\ UNCHANGED file_key
    /\ UNCHANGED <<found, assessment_id, file_data, sent, uploaded, skipped>>
    /\ UNCHANGED codecVars

\* upload_marked.py 99-101: the file is sent to the upload url.
Put ==
    /\ upc = "put"
    /\ \/ /\ calls' = Append(calls, [op |-> "put", attempt |-> attempt, ok |-> TRUE])
          /\ upc' = "complete"
          /\ UNCHANGED <<file_i, attempt, counted, failed, any_raised>>
       \/ AttemptRaises("put")
    /\ UNCHANGED <<found, assessment_id, file_key, file_data, sent, uploaded, skipped>>
    /\ UNCHANGED codecVars

\* upload_marked.py 103-110: the complete call; its data is returned.
Complete ==
    /\ upc = "complete"
    /\ \/ /\ calls' = Append(calls, [op |-> "complete", attempt |-> attempt, ok |-> TRUE])
          /\ file_data' = [fileKey |-> file_key, fileName |-> marked_name]
          /\ upc' = "feedback"
          /\ UNCHANGED <<file_i, attempt, counted, failed, any_raised>>
       \/ /\ AttemptRaises("complete")
          /\ UNCHANGED file_data
    /\ UNCHANGED <<found, assessment_id, file_key, sent, uploaded, skipped>>
    /\ UNCHANGED codecVars

\* A feedback call with the two ids in each other's place.
attach_feedback_Swapped(a_id, s_id, data) ==
    [assessmentId |-> s_id, studentId |-> a_id,
     fileKey |-> data.fileKey, fileName |-> data.fileName]

\* upload_marked.py 121-135: the payload attach_feedback posts.
attach_feedback(a_id, s_id, data) ==
    [assessmentId |-> a_id, studentId |-> s_id,
     fileKey |-> data.fileKey, fileName |-> data.fileName]

\* upload_marked.py 200-205, 121-135: the feedback call, and the counter the
\* file goes to.
Feedback ==
    /\ upc = "feedback"
    /\ sent' = attach_feedback(assessment_id, student_id, file_data)
    /\ \E ok \in BOOLEAN :
         /\ calls' = Append(calls, [op |-> "feedback", attempt |-> attempt, ok |-> ok])
         /\ any_raised' = (any_raised \/ ~ok)
         /\ IF ok
            THEN /\ uploaded' = uploaded + 1
                 /\ counted' = Append(counted, "uploaded")
                 /\ file_i' = file_i + 1
                 /\ UNCHANGED failed
            ELSE /\ failed' = failed + 1
                 /\ counted' = Append(counted, "failed")
                 /\ file_i' = AfterFailure(file_i)
                 /\ UNCHANGED uploaded
    /\ upc' = "loop"
    /\ UNCHANGED <<found, assessment_id, attempt, file_key, file_data, skipped>>
    /\ UNCHANGED codecVars

\* upload_marked.py 207-212: the counters are printed.
Summary ==
    /\ upc = "loop"
    /\ found /= <<>>
    /\ file_i > Len(found)
    /\ upc' = "done"
    /\ UNCHANGED <<found, file_i, assessment_id, attempt, file_key, file_data,
                   calls, sent, counted, uploaded, skipped, failed, any_raised>>
    /\ UNCHANGED codecVars

\* The upload is not running.
UploadIdle ==
    /\ upc = "idle"
    /\ found = <<>>
    /\ file_i = 0
    /\ assessment_id = <<>>
    /\ attempt = 0
    /\ file_key = <<>>
    /\ file_data = NoData
    /\ calls = <<>>
    /\ sent = NoPayload
    /\ counted = <<>>
    /\ uploaded = 0
    /\ skipped = 0
    /\ failed = 0
    /\ any_raised = FALSE

(***************************************************************************)
(* Specifications: one per part of the program, the other parts idle.      *)
(***************************************************************************)
vars == <<codecVars, attVars, dlVars, upVars>>

CodecNext ==
    \/ BuildPrefix /\ UNCHANGED <<attVars, dlVars, upVars>>
    \/ NamePdf /\ UNCHANGED <<attVars, dlVars, upVars>>
    \/ NameImagesPdf /\ UNCHANGED <<attVars, dlVars, upVars>>
    \/ MarkByHuman /\ UNCHANGED <<attVars, dlVars, upVars>>
    \/ Decode /\ UNCHANGED <<attVars, dlVars, upVars>>

InitCodec == CodecInit /\ AttIdle /\ DownloadIdle /\ UploadIdle

SpecCodec == InitCodec /\ [][CodecNext]_vars

DecodeNext == Decode /\ UNCHANGED <<attVars, dlVars, upVars>>

InitDecode == DecodeInit /\ AttIdle /\ DownloadIdle /\ UploadIdle

SpecDecode == InitDecode /\ [][DecodeNext]_vars

AttNext ==
    \/ SkipEntry /\ UNCHANGED <<codecVars, dlVars, upVars>>
    \/ DropDuplicate /\ UNCHANGED <<codecVars, dlVars, upVars>>
    \/ PickEntry /\ UNCHANGED <<codecVars, dlVars, upVars>>
    \/ ReturnPicked /\ UNCHANGED <<codecVars, dlVars, upVars>>

InitAttach == AttInit /\ CodecIdle /\ DownloadIdle /\ UploadIdle

SpecAttach == InitAttach /\ [][AttNext]_vars

\* One assessment of a download run.
DownloadNext ==
    \/ GetTimeline /\ UNCHANGED upVars
    \/ WiseGetRaises /\ UNCHANGED upVars
    \/ SelectList /\ UNCHANGED upVars
    \/ Crash /\ UNCHANGED upVars
    \/ SkipOld /\ UNCHANGED upVars
    \/ OpenSubmission /\ UNCHANGED upVars
    \/ SkipEntry /\ UNCHANGED <<codecVars, dlVars, upVars>>
    \/ DropDuplicate /\ UNCHANGED <<codecVars, dlVars, upVars>>
    \/ PickEntry /\ UNCHANGED <<codecVars, dlVars, upVars>>
    \/ ReturnPicked /\ UNCHANGED <<codecVars, dlVars, upVars>>
    \/ NoFiles /\ UNCHANGED upVars
    \/ StartFiles /\ UNCHANGED upVars
    \/ DownloadPdf /\ UNCHANGED upVars
    \/ DownloadImage /\ UNCHANGED upVars
    \/ MergeImages /\ UNCHANGED upVars
    \/ Cleanup /\ UNCHANGED upVars
    \/ Report /\ UNCHANGED upVars

InitDownload == DownloadInit /\ AttIdle /\ UploadIdle

SpecDownload == InitDownload /\ [][DownloadNext]_vars

\* One run of the upload over a folder.
UploadNext ==
    \/ NothingFound /\ UNCHANGED <<attVars, dlVars>>
    \/ SkipFile /\ UNCHANGED <<attVars, dlVars>>
    \/ StartUpload /\ UNCHANGED <<attVars, dlVars>>
    \/ Initiate /\ UNCHANGED <<attVars, dlVars>>
    \/ Put /\ UNCHANGED <<attVars, dlVars>>
    \/ Complete /\ UNCHANGED <<attVars, dlVars>>
    \/ Feedback /\ UNCHANGED <<attVars, dlVars>>
    \/ Summary /\ UNCHANGED <<attVars, dlVars>>

InitUpload == UploadInit /\ AttIdle /\ DownloadIdle

SpecUpload == InitUpload /\ [][UploadNext]_vars

\* main is one sequential loop and every remote call returns or raises
\* within its timeout (upload_marked.py 73, 100): a step that can be taken
\* is taken.
SpecUploadFair == SpecUpload /\ WF_vars(UploadNext)

(***************************************************************************)
(* Claims about the identity codec.                                        *)
(***************************************************************************)
\* A segment as the data model requires it: no delimiter, no path-illegal
\* character, no run of whitespace, at most max_len characters.
CleanSegment(seg, max_len) ==
    /\ ~Contains(seg, Dunder)
    /\ \A i \in 1..Len(seg) : seg[i] \notin IllegalChars \ WhiteSpace
    /\ \A i \in 1..Len(seg) : seg[i] \in WhiteSpace => seg[i] = " "
    /\ \A i \in 1..(Len(seg) - 1) : ~(seg[i] \in WhiteSpace /\ seg[i + 1] \in WhiteSpace)
    /\ Len(seg) <= max_len

\* C1: codec round trip.  When the assessment id itself is the assessment
\* label, the marked name of every directly downloaded pdf is matched by
\* FILENAME_RE, and the groups "assessment" and "student_id" are the original
\* assessment id and student id.
C1_RoundTrip ==
    (cpc = "decoded" /\ out_kind = "pdf" /\ title = <<>>)
        => /\ m.matched
           /\ m.assessment = aid
           /\ m.student_id = student_id

\* C2: anything the download pipeline names, the upload pipeline's decoder
\* parses once " Marked" is added: every marked output name (direct pdf or
\* merged images pdf, the assessment with or without a title) is matched.
C2_EncodeDecodes ==
    cpc = "decoded" => m.matched

\* C4: every segment safe_part produces is free of the delimiter, of
\* path-illegal characters and of whitespace runs and is at most max_len long,
\* and the prefix ends with the student id exactly.
C4_SegmentInvariant ==
    /\ cpc /= "prefix" =>
         /\ CleanSegment(class_name, ClassMaxLen)
         /\ CleanSegment(student_name, StudentMaxLen)
         /\ title /= <<>> => CleanSegment(assessment_title, TitleMaxLen)
         /\ EndsWith(prefix, Dunder \o student_id)
    /\ out_kind = "pdf" => CleanSegment(original, FileMaxLen)

(***************************************************************************)
(* Claims about the decoder.                                               *)
(***************************************************************************)
\* The name ends in whitespace, "Marked", ".pdf" (in any letter case).
HasMarkedEnding(name) ==
    /\ Len(name) >= Len(MarkedPdf) + 1
    /\ Lower(Slice(name, Len(name) - Len(MarkedPdf) + 1, Len(name))) = MarkedPdf
    /\ name[Len(name) - Len(MarkedPdf)] \in WhiteSpace

\* Exactly 24 hexadecimal characters.
IsHexId(seg) == Len(seg) = IdLen /\ \A i \in 1..Len(seg) : seg[i] \in HexChars

\* C3: codec rejection.  A name without the whitespace + "Marked" + ".pdf"
\* ending is not matched, and a "__"-delimited name whose second or fourth
\* segment is not exactly 24 hex characters is not matched.
C3_Rejection ==
    cpc = "decoded" =>
        LET segs == Split(marked_name)
        IN  /\ ~HasMarkedEnding(marked_name) => ~m.matched
            /\ (Len(segs) >= 2 /\ ~IsHexId(segs[2])) => ~m.matched
            /\ (Len(segs) >= 4 /\ ~IsHexId(segs[4])) => ~m.matched

(***************************************************************************)
(* Claims about extract_attachments.                                       *)
(***************************************************************************)
\* The dedupe key of the data model: the storage key if present, else the
\* lowercased filename-or-url.
DedupeKey(a) == IF AttS3Key(a) /= <<>> THEN AttS3Key(a) ELSE KeyName(a)

\* The positions of the entries that reach the dedupe step.
AcceptablePos == {i \in 1..Len(attachments) : Acceptable(attachments[i])}

\* The dedupe key of the entry a retained descriptor was built from.
SourceKey(d) ==
    DedupeKey(attachments[CHOOSE i \in AcceptablePos : Descriptor(attachments[i]) = d])

\* C5: no two descriptors returned by extract_attachments share a dedupe
\* key, also when one entry's storage key equals the lowercased filename of
\* another entry that has no storage key.
C5_DedupeKeyUnique ==
    apc = "done" =>
        \A x, y \in 1..Len(picked) :
            x /= y => SourceKey(picked[x]) /= SourceKey(picked[y])

\* The acceptable entries that carry storage key k, in source order.
WithKey(k) == {i \in AcceptablePos : AttS3Key(attachments[i]) = k}

\* The storage keys of the acceptable entries.
StorageKeys == {AttS3Key(attachments[i]) : i \in AcceptablePos} \ {<<>>}

\* C6: dedup first-wins.  Of the acceptable entries that share a storage
\* key, extract_attachments returns exactly one descriptor, that of the first
\* such entry in source order; and the returned descriptors keep source order.
C6_FirstWins ==
    apc = "done" =>
        /\ \A k \in StorageKeys :
             /\ Cardinality({x \in 1..Len(picked) : picked[x].s3Key = k}) = 1
             /\ \E x \in 1..Len(picked) :
                  picked[x] = Descriptor(attachments[Min(WithKey(k))])
        /\ \E f \in [1..Len(picked) -> 1..Len(attachments)] :
             /\ \A x \in 1..Len(picked) : picked[x] = Descriptor(attachments[f[x]])
             /\ \A x, y \in 1..Len(picked) : x < y => f[x] < f[y]

\* C6 witness: a list with two acceptable entries of one storage key and
\* different filenames has been processed, one descriptor is returned for
\* the key, and a later entry was retained after it.
C6_Witness ==
    /\ apc = "done"
    /\ \E i, j \in AcceptablePos :
         /\ i < j
         /\ AttS3Key(attachments[i]) /= <<>>
         /\ AttS3Key(attachments[i]) = AttS3Key(attachments[j])
         /\ AttFname(attachments[i]) /= AttFname(attachments[j])
    /\ Len(picked) = 2
    /\ picked[1].s3Key /= <<>>
    /\ picked[2].s3Key /= picked[1].s3Key

RECURSIVE Nodes(_)
\* Every node of a document.
Nodes(x) == {x} \cup UNION {Nodes(Children(x)[i]) : i \in 1..Len(Children(x))}

\* The instants of the values that parse under a timestamp key at any depth
\* of the record.
Instants(record) ==
    { parse_dt(DGet(d, COMMON_KEYS[i])).inst :
        <<d, i>> \in { <<e, k>> \in Nodes(record) \X (1..Len(COMMON_KEYS)) :
                         parse_dt(DGet(e, COMMON_KEYS[k])) \notin {None, Raises} } }

\* The latest of the instants is exactly the cutoff.
LatestIs(T, cutoff) == cutoff \in T /\ \A t \in T : ~Less(cutoff, t)

\* C7: the recency filter skips a submission only if the record has a
\* timestamp that parses and every such timestamp (so the latest one) is
\* strictly earlier than the cutoff; a record without a timestamp that parses
\* is kept, and so is a record whose latest timestamp is the cutoff itself.
C7_RecencyInclusive ==
    \A i \in 1..Len(decisions) :
        LET T == Instants(submissions[i])
        IN  /\ decisions[i] = "old" => T /= {} /\ \A t \in T : Less(t, since)
            /\ T = {} => decisions[i] = "kept"
            /\ LatestIs(T, since) => decisions[i] = "kept"

\* A run in which the filter has skipped one submission and kept another
\* whose latest timestamp is the cutoff.
C7_Witness ==
    \E i, j \in 1..Len(decisions) :
        /\ decisions[i] = "old"
        /\ decisions[j] = "kept"
        /\ LatestIs(Instants(submissions[j]), since)

\* A list node whose elements are all objects, at least one of the first 10
\* with a submission key.
Qualifies(x) ==
    /\ x.t = "list"
    /\ x.items /= <<>>
    /\ \A i \in 1..Len(x.items) : x.items[i].t = "dict"
    /\ \E i \in 1..Len(x.items) :
         i <= 10 /\ \E k \in SUBMISSION_HINT_KEYS : \E p \in 1..Len(x.items[i].kv) : x.items[i].kv[p][1] = k

\* C8: the list the pipeline processes is a non-empty array of objects of
\* the document with a submission key among its first 10 elements, and no
\* array of that kind anywhere in the document has more elements.
C8_SelectsLargestCandidate ==
    dpc \notin {"timeline", "fetch", "aborted", "idle"} /\ submissions /= <<>> =>
        /\ \E x \in Nodes(assessment) : Qualifies(x) /\ x.items = submissions
        /\ \A x \in Nodes(assessment) : Qualifies(x) => Len(x.items) <= Len(submissions)

\* The document holds an array of 2 objects without a submission key, an
\* array of 5 submissions, which is the one selected, and a larger array of
\* objects that is no candidate.
C8_Witness ==
    /\ dpc = "sub"
    /\ Len(submissions) = 5
    /\ \E x \in Nodes(assessment) :
         x.t = "list" /\ Len(x.items) = 2 /\ ~Qualifies(x) /\ \A i \in 1..2 : x.items[i].t = "dict"
    /\ \E x \in Nodes(assessment) :
         x.t = "list" /\ Len(x.items) > 5 /\ ~Qualifies(x)

\* An upper bound of the number of names in the folder.
HowMany(folder) ==
    Cardinality(folder.names)
      + Cardinality(UNION {{<<run, i>> : i \in run[3]..run[4]} : run \in folder.runs})

\* The path is the desired name when the folder does not hold it, and
\* otherwise the numbered variant with the lowest index from 2 upward that
\* the folder does not hold.
LowestFree(folder, desired, path) ==
    IF ~Exists(folder, desired) THEN path = desired
    ELSE \E i \in 2..(HowMany(folder) + 1) :
           /\ path = Candidate(desired, i)
           /\ ~Exists(folder, path)
           /\ \A j \in 2..(i - 1) : Exists(folder, Candidate(desired, j))

\* C9: unique_path returns the desired path when it does not exist, and
\* otherwise the numbered path with the lowest free index ("name (2).ext",
\* then "name (3).ext"); so no download and no merged pdf is written to a
\* path that already held a file.
C9_UniquePath ==
    /\ [](clobbered = {})
    /\ [][last_call'.n /= last_call.n =>
            LowestFree(IF last_call'.dir = "root" THEN files ELSE tmp_files,
                       last_call'.desired, last_call'.path)]_vars

\* C12: for the submission the loop is at, images are downloaded and merged
\* only when its normalized attachments hold no pdf and at least one image;
\* when they hold no pdf and at least one image, every image is requested and
\* the images that arrived are merged, once; a pdf is downloaded directly only
\* when they hold a pdf; no submission yields both a directly downloaded pdf
\* and an images pdf, nor more than one images pdf.
C12_ImageFallback ==
    LET pdf_atts   == PdfAtts(picked)
        image_atts == ImageAtts(picked)
    IN  /\ made.images > 0 \/ made.merges > 0 => pdf_atts = <<>> /\ image_atts /= <<>>
        /\ made.pdfs > 0 => pdf_atts /= <<>>
        /\ ~(made.pdfs > 0 /\ made.merged > 0)
        /\ made.merged <= made.merges /\ made.merges <= 1
        /\ dpc \in {"sub", "done"} /\ made /= NoneMade /\ pdf_atts = <<>> =>
              /\ made.images = Len(image_atts)
              /\ made.merges = 1 <=> image_paths /= <<>>
        /\ dpc \in {"sub", "done"} /\ apc = "done" /\ pdf_atts = <<>> /\ image_atts /= <<>> =>
              made.images = Len(image_atts)

\* C12 witness: a submission with two images and no pdf went through: both
\* images were requested and one images pdf was created.
C12_Witness ==
    /\ dpc = "sub"
    /\ PdfAtts(picked) = <<>>
    /\ Len(ImageAtts(picked)) = 2
    /\ made.images = 2
    /\ made.merged = 1
    /\ made.pdfs = 0

\* C13: once the pipeline is through with a submission that took the image
\* path, whatever the outcome of each image download (also one that failed
\* after its file was opened for writing) and of the conversion, the scratch
\* folder holds no staged image and the scratch folder itself is gone.
C13_ScratchCleanup ==
    dpc \in {"sub", "done"} /\ made.images > 0 =>
        /\ tmp_files.names = {}
        /\ ~tmp_dir

\* C14: a remote error while the content timeline of a class, the detail
\* document of an assessment or an attachment is fetched does not end the
\* download run: no such error leaves main, and the run comes to the report
\* of its three counters.
C14_NonFatalDownloadErrors ==
    dpc /= "aborted"

\* A value as C15 reads it: every number is an instant, in milliseconds when
\* it is over 10,000,000,000 and in seconds otherwise; a date string is its
\* instant; nothing else parses.
ReadAsClaimed(value) ==
    IF value.t = "num"
    THEN LET v == <<value.hi, value.lo>>
         IN  IF Less(MsThreshold, v) THEN DT(v) ELSE DT(FromSeconds(v))
    ELSE IF value.t = "date" THEN DT(value.inst)
    ELSE None

\* The instants C15 reads under the timestamp keys at any depth of the record.
InstantsAsClaimed(record) ==
    { ReadAsClaimed(DGet(d, COMMON_KEYS[i])).inst :
        <<d, i>> \in { <<e, k>> \in Nodes(record) \X (1..Len(COMMON_KEYS)) :
                         ReadAsClaimed(DGet(e, COMMON_KEYS[k])) /= None } }

\* The latest of them, or none.
LatestAsClaimed(record) ==
    LET T == InstantsAsClaimed(record)
    IN  IF T = {} THEN None
        ELSE DT(CHOOSE t \in T : \A u \in T : ~Less(t, u))

\* C15: find_any_timestamp returns the latest of the instants parsed from the
\* values under the timestamp keys at any depth of the record, or none if no
\* value parses, every number being read as milliseconds if and only if it is
\* over 10,000,000,000 and as seconds otherwise, 0 and 10,000,000,000
\* included.
C15_TimestampExtraction ==
    [][dpc = "sub" /\ sub_i <= Len(submissions)
          => ts' = LatestAsClaimed(submissions[sub_i])]_vars

(***************************************************************************)
(* Claims about the upload.                                                *)
(***************************************************************************)
\* A call of the file the loop is at, as logged.
Called(op, n, ok) ==
    \E k \in 1..Len(calls) : calls[k] = [op |-> op, attempt |-> n, ok |-> ok]

\* Attempt n of the handshake failed: one of its three calls raised.
AttemptFailed(n) ==
    \E op \in {"initiate", "put", "complete"} : Called(op, n, FALSE)

\* Attempt n of the handshake succeeded: its complete call returned.
AttemptSucceeded(n) == Called("complete", n, TRUE)

\* The handshake failed on attempts 1 and 2 and succeeded on attempt 3.
RetrySuccess ==
    /\ AttemptFailed(1)
    /\ AttemptFailed(2)
    /\ AttemptSucceeded(3)

\* The feedback call of the file returned.
FeedbackOk == \E n \in 1..MAX_RETRIES : Called("feedback", n, TRUE)

CountOf(label) == Cardinality({k \in 1..Len(counted) : counted[k] = label})

\* The names of the folder that do not decode.
UndecodableNames == {n \in MarkedNames : ~FILENAME_RE_match(n).matched}

\* The files found whose names do not decode.
Undecodable == {k \in 1..Len(found) : found[k] \in UndecodableNames}

\* Each counter holds the files that went to it, the loop is at the file after
\* the last one counted, and at the summary every file found has been counted
\* once, as skipped if and only if its name does not decode.
CounterPartition ==
    /\ uploaded = CountOf("uploaded")
    /\ skipped = CountOf("skipped")
    /\ failed = CountOf("failed")
    /\ uploaded + skipped + failed = Len(counted)
    /\ upc \in {"loop", "initiate", "put", "complete", "feedback"}
          => file_i = Len(counted) + 1
    /\ upc = "done" =>
          /\ Len(counted) = Len(found)
          /\ uploaded + skipped + failed = Len(found)
          /\ \A k \in 1..Len(found) : counted[k] = "skipped" <=> k \in Undecodable
          /\ Len(found) = 3 /\ Cardinality(Undecodable) = 1 /\ ~any_raised
                => uploaded = 2 /\ skipped = 1 /\ failed = 0

\* C11: the upload goes through every file it found whatever the outcome of
\* the files before and reaches its summary; each file is counted in one
\* counter, as skipped if and only if its name does not decode, so that at the
\* summary uploaded + skipped + failed is the number of files found; with 3
\* files of which 1 has an undecodable name and no remote call raising, the
\* counters are uploaded 2, skipped 1, failed 0.
C11_BatchIsolation ==
    /\ []CounterPartition
    /\ <>(upc \in {"done", "returned"})

\* C11 witness: the summary of a run over 3 files, one with an undecodable
\* name, in which a file failed and the files after it were still processed.
C11_Witness ==
    /\ upc = "done"
    /\ Len(found) = 3
    /\ Cardinality(Undecodable) = 1
    /\ counted[1] = "failed"
    /\ uploaded = 1
    /\ skipped = 1
    /\ failed = 1

\* The calls of the handshake in the log of the file.
HandshakeCalls == {k \in 1..Len(calls) : calls[k].op /= "feedback"}

\* C16: for a file whose name decodes, the handshake is attempted at most 3
\* times, every attempt starts at the initiate call, no call of the handshake
\* follows an attempt that succeeded, and the file is counted as failed only
\* after 3 attempts have failed, a remote error in any of its calls being
\* retried.
C16_BoundedRetry ==
    /\ \A k \in 1..Len(calls) : calls[k].attempt \in 1..MAX_RETRIES
    /\ \A k \in HandshakeCalls :
          (k = 1 \/ calls[k - 1].attempt /= calls[k].attempt) => calls[k].op = "initiate"
    /\ \A k \in HandshakeCalls :
          calls[k].op = "initiate" => k = 1 \/ ~calls[k - 1].ok
    /\ \A j, k \in HandshakeCalls :
          j < k => ~(calls[j].op = "complete" /\ calls[j].ok)
    /\ upc = "loop" /\ calls /= <<>> /\ counted[Len(counted)] = "failed"
          => \A n \in 1..MAX_RETRIES : AttemptFailed(n)

\* The file the log of calls belongs to: the one the loop is at, or the one
\* counted last when the loop is between two files.
FileOfCalls == IF upc \in {"loop", "done"} THEN Len(counted) ELSE file_i

\* The feedback calls in the log of the file.
FeedbackCalls == {k \in 1..Len(calls) : calls[k].op = "feedback"}

\* C17: the feedback call of a file is made only right after the complete
\* call of an attempt of that file returned, and at most once; its payload
\* holds the assessment id and the student id that FILENAME_RE reads in the
\* name of that file and the file key and file name that complete call
\* returned; and no remote call is made for a file whose name does not decode.
C17_FeedbackRouting ==
    /\ Cardinality(FeedbackCalls) <= 1
    /\ \A k \in FeedbackCalls :
          /\ k > 1
          /\ calls[k - 1] = [op |-> "complete", attempt |-> calls[k].attempt, ok |-> TRUE]
          /\ LET name == found[FileOfCalls]
                 mm   == FILENAME_RE_match(name)
             IN  /\ mm.matched
                 /\ sent.assessmentId = mm.assessment
                 /\ sent.studentId = mm.student_id
                 /\ sent.fileKey = <<"k">> \o IntToStr(FileOfCalls) \o <<"-">>
                                      \o IntToStr(calls[k].attempt)
                 /\ sent.fileName = name
    /\ calls /= <<>> => found[FileOfCalls] \notin UndecodableNames
    /\ upc \in {"initiate", "put", "complete", "feedback"}
          => found[file_i] \notin UndecodableNames
    /\ (upc = "loop" /\ counted /= <<>> /\ counted[Len(counted)] = "skipped")
          => calls = <<>>

\* C17 witness: the second file of a folder got its feedback call, on the
\* second attempt of its handshake, after the first file got its own.
C17_Witness ==
    /\ upc = "loop"
    /\ Len(counted) = 2
    /\ counted[1] = "uploaded"
    /\ FeedbackCalls /= {}
    /\ calls[Len(calls)] = [op |-> "feedback", attempt |-> 2, ok |-> TRUE]
    /\ sent.assessmentId = Matches[found[2]].assessment
    /\ sent.assessmentId /= Matches[found[1]].assessment

====
